---- MODULE Spec2Model ----
(***************************************************************************)
(* Packet-protection core of quiche (src/quiche/src/crypto.rs): algorithm  *)
(* catalog, HKDF key schedule, Open / Seal facades, nonce construction,    *)
(* AEAD sealing and opening, header-protection masks and key update.       *)
(*                                                                         *)
(* Byte strings are sequences over 0..255.  The u64 packet counter and the *)
(* usize lengths handed in by the caller are kept at their full 64-bit     *)
(* width as four 16-bit limbs, most significant first.  The BoringSSL      *)
(* primitives reached through the extern block (AEAD, HKDF, AES, ChaCha20) *)
(* compute the bytes the library computes: HMAC-SHA-256/384, AES-GCM,      *)
(* ChaCha20-Poly1305, the AES block cipher and the ChaCha20 keystream.     *)
(***************************************************************************)
EXTENDS Integers, Sequences, FiniteSets, TLC

VARIABLES opens, seals, buf, sealed, res, args

vars == <<opens, seals, buf, sealed, res, args>>

(***************************************************************************)
(* Results: Ok(v), Err(CryptoFail), or a panic that aborts the caller.     *)
(***************************************************************************)
Ok(v) == [status |-> "Ok", val |-> v]

CryptoFail == [status |-> "CryptoFail"]

Panic(why) == [status |-> "Panic", why |-> why]

IsOk(r) == r.status = "Ok"

\* A call with undefined behaviour: any one of the outcomes may happen.
Undefined(outcomes) == [status |-> "Undefined", outcomes |-> outcomes]

\* The process is stopped by a memory fault.
Fault(why) == [status |-> "Fault", why |-> why]

\* The results a call can end in.
Outcomes(r) == IF r.status = "Undefined" THEN r.outcomes ELSE { r }

(***************************************************************************)
(* Byte and machine-integer helpers.                                       *)
(***************************************************************************)
Byte == 0 .. 255

Zeros(n) == [i \in 1 .. n |-> 0]

\* The function f on 1 .. n as a sequence whose elements are held as values.
AsSeq(f) == << >> \o f

\* LET x == v IN Body(x), with v evaluated once however often Body reads x.
Bind(v, Body(_)) == Body(v)

RECURSIVE BitXorRec(_, _)
BitXorRec(a, b) ==
    IF a = 0 THEN b
    ELSE IF b = 0 THEN a
    ELSE ((a + b) % 2) + 2 * BitXorRec(a \div 2, b \div 2)

\* XorTab[a + 1][b + 1] is a XOR b for bytes a and b.
XorTab ==
    AsSeq([a \in 1 .. 256 |-> AsSeq([b \in 1 .. 256 |-> BitXorRec(a - 1, b - 1)])])

\* a XOR b for bytes a and b.
BitXor(a, b) == XorTab[a + 1][b + 1]

\* u64::to_be_bytes on the four-limb form of a 64-bit value.
to_be_bytes(c) ==
    << c[1] \div 256, c[1] % 256, c[2] \div 256, c[2] % 256,
       c[3] \div 256, c[3] % 256, c[4] \div 256, c[4] % 256 >>

\* u32::from_le_bytes
from_le_bytes(b) == << b[4] * 256 + b[3], b[2] * 256 + b[1] >>

\* A length of a slice that exists in memory, as a usize.
usize_from(n) == << 0, 0, n \div 65536, n % 65536 >>

USIZE_MAX == << 65535, 65535, 65535, 65535 >>

\* usize addition: the 64-bit wrapped sum and whether it overflowed.
usize_add(a, b) ==
    LET s4 == a[4] + b[4]
        s3 == a[3] + b[3] + (s4 \div 65536)
        s2 == a[2] + b[2] + (s3 \div 65536)
        s1 == a[1] + b[1] + (s2 \div 65536)
    IN  [val |-> << s1 % 65536, s2 % 65536, s3 % 65536, s4 % 65536 >>,
         overflow |-> s1 >= 65536]

usize_gt(a, b) ==
    \E i \in 1 .. 4 : a[i] > b[i] /\ \A j \in 1 .. (i - 1) : a[j] = b[j]

\* The value of a usize known to be at most the length of a slice.
usize_small(a) == a[3] * 65536 + a[4]

(***************************************************************************)
(* Algorithm catalog.                                                      *)
(***************************************************************************)
Algorithm == {"AES128_GCM", "AES256_GCM", "ChaCha20_Poly1305"}

\* cfg!(feature = "fuzzing"): off in the default build.
fuzzing == FALSE

get_evp_md(alg) ==
    CASE alg = "AES128_GCM" -> "SHA256"
      [] alg = "AES256_GCM" -> "SHA384"
      [] alg = "ChaCha20_Poly1305" -> "SHA256"

prk_len(alg) ==
    CASE alg = "AES128_GCM" -> 32
      [] alg = "AES256_GCM" -> 48
      [] alg = "ChaCha20_Poly1305" -> 32

key_len(alg) ==
    CASE alg = "AES128_GCM" -> 16
      [] alg = "AES256_GCM" -> 32
      [] alg = "ChaCha20_Poly1305" -> 32

tag_len(alg) ==
    IF fuzzing THEN 0
    ELSE CASE alg = "AES128_GCM" -> 16
           [] alg = "AES256_GCM" -> 16
           [] alg = "ChaCha20_Poly1305" -> 16

nonce_len(alg) ==
    CASE alg = "AES128_GCM" -> 12
      [] alg = "AES256_GCM" -> 12
      [] alg = "ChaCha20_Poly1305" -> 12


(***************************************************************************)
(* The primitives behind the extern block.  They are library code          *)
(* (BoringSSL / AWS-LC) that the crate links against and declares only;    *)
(* the definitions follow the algorithms the library implements: SHA-256   *)
(* and SHA-384 (FIPS 180-4), HMAC (RFC 2104), HKDF (RFC 5869), AES         *)
(* (FIPS 197), AES-GCM (SP 800-38D), ChaCha20 and Poly1305 (RFC 8439).     *)
(* TLC integers are 32 bits wide, so 32- and 64-bit words are held as      *)
(* 16-bit limbs.                                                           *)
(***************************************************************************)
EVP_MD_size(md) == IF md = "SHA256" THEN 32 ELSE 48

(***************************************************************************)
(* SHA-256 and SHA-384 (FIPS 180-4).  A word is a sequence of 16-bit       *)
(* limbs, most significant first: two limbs for SHA-256, four for SHA-384. *)
(***************************************************************************)
Xor16(a, b) ==
    256 * XorTab[(a \div 256) + 1][(b \div 256) + 1]
        + XorTab[(a % 256) + 1][(b % 256) + 1]

And16(a, b) == (a + b - Xor16(a, b)) \div 2

XorW(x, y) ==
    IF Len(x) = 2 THEN << Xor16(x[1], y[1]), Xor16(x[2], y[2]) >>
    ELSE << Xor16(x[1], y[1]), Xor16(x[2], y[2]), Xor16(x[3], y[3]), Xor16(x[4], y[4]) >>

AndW(x, y) ==
    IF Len(x) = 2 THEN << And16(x[1], y[1]), And16(x[2], y[2]) >>
    ELSE << And16(x[1], y[1]), And16(x[2], y[2]), And16(x[3], y[3]), And16(x[4], y[4]) >>

\* The word of the limb-wise sums s (the last limb first in the argument
\* list), carries propagated, modulo 2^32 and 2^64.
Carry2(s2, s1) == << (s1 + s2 \div 65536) % 65536, s2 % 65536 >>

Carry4c(s4, c3, c2, s1) ==
    << (s1 + c2 \div 65536) % 65536, c2 % 65536, c3 % 65536, s4 % 65536 >>

Carry4b(s4, c3, s2, s1) == Carry4c(s4, c3, s2 + c3 \div 65536, s1)

Carry4(s4, s3, s2, s1) == Carry4b(s4, s3 + s4 \div 65536, s2, s1)

Add2W(a, b) ==
    IF Len(a) = 2 THEN Carry2(a[2] + b[2], a[1] + b[1])
    ELSE Carry4(a[4] + b[4], a[3] + b[3], a[2] + b[2], a[1] + b[1])

Add4W(a, b, c, d) ==
    IF Len(a) = 2 THEN Carry2(a[2] + b[2] + c[2] + d[2], a[1] + b[1] + c[1] + d[1])
    ELSE Carry4(a[4] + b[4] + c[4] + d[4], a[3] + b[3] + c[3] + d[3],
                a[2] + b[2] + c[2] + d[2], a[1] + b[1] + c[1] + d[1])

Add5W(a, b, c, d, e) ==
    IF Len(a) = 2
    THEN Carry2(a[2] + b[2] + c[2] + d[2] + e[2], a[1] + b[1] + c[1] + d[1] + e[1])
    ELSE Carry4(a[4] + b[4] + c[4] + d[4] + e[4], a[3] + b[3] + c[3] + d[3] + e[3],
                a[2] + b[2] + c[2] + d[2] + e[2], a[1] + b[1] + c[1] + d[1] + e[1])

\* Limb j of x, counted cyclically.
LimbCyc(x, j) == x[((j - 1) % Len(x)) + 1]

\* Limb j of x, zero outside the word.
LimbZero(x, j) == IF j < 1 THEN 0 ELSE x[j]

\* Limb i of x rotated right by 16 * q + r bits.
RotrLimb(x, i, q, r) ==
    (LimbCyc(x, i - q) \div 2^r) + (LimbCyc(x, i - q - 1) % 2^r) * 2^(16 - r)

RotrW(x, n) ==
    IF Len(x) = 2
    THEN << RotrLimb(x, 1, n \div 16, n % 16), RotrLimb(x, 2, n \div 16, n % 16) >>
    ELSE << RotrLimb(x, 1, n \div 16, n % 16), RotrLimb(x, 2, n \div 16, n % 16),
            RotrLimb(x, 3, n \div 16, n % 16), RotrLimb(x, 4, n \div 16, n % 16) >>

\* Limb i of x shifted right by 16 * q + r bits.
ShrLimb(x, i, q, r) ==
    (LimbZero(x, i - q) \div 2^r) + (LimbZero(x, i - q - 1) % 2^r) * 2^(16 - r)

ShrW(x, n) ==
    IF Len(x) = 2
    THEN << ShrLimb(x, 1, n \div 16, n % 16), ShrLimb(x, 2, n \div 16, n % 16) >>
    ELSE << ShrLimb(x, 1, n \div 16, n % 16), ShrLimb(x, 2, n \div 16, n % 16),
            ShrLimb(x, 3, n \div 16, n % 16), ShrLimb(x, 4, n \div 16, n % 16) >>

SHA256_K ==
    << << 17034, 12184 >>, << 28983, 17553 >>, << 46528, 64463 >>, << 59829, 56229 >>,
       << 14678, 49755 >>, << 23025, 4593 >>, << 37439, 33444 >>, << 43804, 24277 >>,
       << 55303, 43672 >>, << 4739, 23297 >>, << 9265, 34238 >>, << 21772, 32195 >>,
       << 29374, 23924 >>, << 32990, 45566 >>, << 39900, 1703 >>, << 49563, 61812 >>,
       << 58523, 27073 >>, << 61374, 18310 >>, << 4033, 40390 >>, << 9228, 41420 >>,
       << 11753, 11375 >>, << 19060, 33962 >>, << 23728, 43484 >>, << 30457, 35034 >>,
       << 38974, 20818 >>, << 43057, 50797 >>, << 45059, 10184 >>, << 48985, 32711 >>,
       << 50912, 3059 >>, << 54695, 37191 >>, << 1738, 25425 >>, << 5161, 10599 >>,
       << 10167, 2693 >>, << 11803, 8504 >>, << 19756, 28156 >>, << 21304, 3347 >>,
       << 25866, 29524 >>, << 30314, 2747 >>, << 33218, 51502 >>, << 37490, 11397 >>,
       << 41663, 59553 >>, << 43034, 26187 >>, << 49739, 35696 >>, << 51052, 20899 >>,
       << 53650, 59417 >>, << 54937, 1572 >>, << 62478, 13701 >>, << 4202, 41072 >>,
       << 6564, 49430 >>, << 7735, 27656 >>, << 10056, 30540 >>, << 13488, 48309 >>,
       << 14620, 3251 >>, << 20184, 43594 >>, << 23452, 51791 >>, << 26670, 28659 >>,
       << 29839, 33518 >>, << 30885, 25455 >>, << 33992, 30740 >>, << 36039, 520 >>,
       << 37054, 65530 >>, << 42064, 27883 >>, << 48889, 41975 >>, << 50801, 30962 >> >>

SHA256_H0 ==
    << << 27145, 58983 >>, << 47975, 44677 >>, << 15470, 62322 >>, << 42319, 62778 >>,
       << 20750, 21119 >>, << 39685, 26764 >>, << 8067, 55723 >>, << 23520, 52505 >> >>

SHA512_K ==
    << << 17034, 12184, 55080, 44578 >>, << 28983, 17553, 9199, 26061 >>,
       << 46528, 64463, 60493, 15151 >>, << 59829, 56229, 33161, 56252 >>,
       << 14678, 49755, 62280, 46392 >>, << 23025, 4593, 46597, 53273 >>,
       << 37439, 33444, 44825, 20379 >>, << 43804, 24277, 55917, 33048 >>,
       << 55303, 43672, 41731, 578 >>, << 4739, 23297, 17776, 28606 >>,
       << 9265, 34238, 20196, 45708 >>, << 21772, 32195, 54783, 46306 >>,
       << 29374, 23924, 62075, 35183 >>, << 32990, 45566, 15126, 38577 >>,
       << 39900, 1703, 9671, 4661 >>, << 49563, 61812, 53097, 9876 >>,
       << 58523, 27073, 40689, 19154 >>, << 61374, 18310, 14415, 9699 >>,
       << 4033, 40390, 35724, 54709 >>, << 9228, 41420, 30636, 40037 >>,
       << 11753, 11375, 22827, 629 >>, << 19060, 33962, 28326, 58499 >>,
       << 23728, 43484, 48449, 64468 >>, << 30457, 35034, 33553, 21429 >>,
       << 38974, 20818, 61030, 57259 >>, << 43057, 50797, 11700, 12816 >>,
       << 45059, 10184, 39163, 8511 >>, << 48985, 32711, 48879, 3812 >>,
       << 50912, 3059, 15784, 36802 >>, << 54695, 37191, 37642, 42789 >>,
       << 1738, 25425, 57347, 33391 >>, << 5161, 10599, 2574, 28272 >>,
       << 10167, 2693, 18130, 12284 >>, << 11803, 8504, 23590, 51494 >>,
       << 19756, 28156, 23236, 10989 >>, << 21304, 3347, 40341, 46047 >>,
       << 25866, 29524, 35759, 25566 >>, << 30314, 2747, 15479, 45736 >>,
       << 33218, 51502, 18413, 44774 >>, << 37490, 11397, 5250, 13627 >>,
       << 41663, 59553, 19697, 868 >>, << 43034, 26187, 48194, 12289 >>,
       << 49739, 35696, 53496, 38801 >>, << 51052, 20899, 1620, 48688 >>,
       << 53650, 59417, 55023, 21016 >>, << 54937, 1572, 21861, 43280 >>,
       << 62478, 13701, 22385, 8234 >>, << 4202, 41072, 12987, 53688 >>,
       << 6564, 49430, 47314, 53448 >>, << 7735, 27656, 20801, 43859 >>,
       << 10056, 30540, 57230, 60313 >>, << 13488, 48309, 57755, 18600 >>,
       << 14620, 3251, 50633, 23139 >>, << 20184, 43594, 58177, 35531 >>,
       << 23452, 51791, 30563, 58227 >>, << 26670, 28659, 54962, 47267 >>,
       << 29839, 33518, 24047, 45820 >>, << 30885, 25455, 17175, 12128 >>,
       << 33992, 30740, 41456, 43890 >>, << 36039, 520, 6756, 14828 >>,
       << 37054, 65530, 9059, 7720 >>, << 42064, 27883, 56962, 48617 >>,
       << 48889, 41975, 45766, 30997 >>, << 50801, 30962, 58226, 21291 >>,
       << 51751, 16078, 59942, 24988 >>, << 53638, 47303, 8640, 49671 >>,
       << 60122, 32214, 52704, 60190 >>, << 62845, 20351, 61038, 53624 >>,
       << 1776, 26538, 29207, 28602 >>, << 2659, 32197, 41672, 39078 >>,
       << 4415, 38916, 48889, 3502 >>, << 7025, 2869, 4892, 18203 >>,
       << 10459, 30709, 8964, 32132 >>, << 13002, 43899, 16583, 9363 >>,
       << 15518, 48650, 5577, 48828 >>, << 17181, 26564, 39952, 3404 >>,
       << 19653, 54462, 52030, 17078 >>, << 22911, 10652, 64613, 32298 >>,
       << 24523, 28587, 15062, 64236 >>, << 27716, 6540, 19015, 22551 >> >>

SHA384_H0 ==
    << << 52155, 40285, 49413, 40664 >>, << 25242, 10538, 13948, 54535 >>,
       << 37209, 346, 12400, 56599 >>, << 5423, 60632, 63246, 22841 >>,
       << 26419, 9831, 65472, 2865 >>, << 36532, 19079, 26712, 5393 >>,
       << 56076, 11789, 25849, 36775 >>, << 18357, 18461, 48890, 20388 >> >>

SHA_K(md) == IF md = "SHA256" THEN SHA256_K ELSE SHA512_K

SHA_H0(md) == IF md = "SHA256" THEN SHA256_H0 ELSE SHA384_H0

\* Bytes per block and per word.
SHA_block(md) == IF md = "SHA256" THEN 64 ELSE 128

BSig0(x) ==
    IF Len(x) = 2 THEN XorW(XorW(RotrW(x, 2), RotrW(x, 13)), RotrW(x, 22))
    ELSE XorW(XorW(RotrW(x, 28), RotrW(x, 34)), RotrW(x, 39))

BSig1(x) ==
    IF Len(x) = 2 THEN XorW(XorW(RotrW(x, 6), RotrW(x, 11)), RotrW(x, 25))
    ELSE XorW(XorW(RotrW(x, 14), RotrW(x, 18)), RotrW(x, 41))

SSig0(x) ==
    IF Len(x) = 2 THEN XorW(XorW(RotrW(x, 7), RotrW(x, 18)), ShrW(x, 3))
    ELSE XorW(XorW(RotrW(x, 1), RotrW(x, 8)), ShrW(x, 7))

SSig1(x) ==
    IF Len(x) = 2 THEN XorW(XorW(RotrW(x, 17), RotrW(x, 19)), ShrW(x, 10))
    ELSE XorW(XorW(RotrW(x, 19), RotrW(x, 61)), ShrW(x, 6))

Ch(e, f, g) == XorW(g, AndW(e, XorW(f, g)))

Maj(a, b, c) == XorW(AndW(a, b), AndW(c, XorW(a, b)))

\* The message schedule w extended to n words.
RECURSIVE SHA_schedule(_, _)
SHA_schedule(w, n) ==
    IF Len(w) >= n THEN w
    ELSE SHA_schedule(
             Append(w, Add4W(SSig1(w[Len(w) - 1]), w[Len(w) - 6],
                             SSig0(w[Len(w) - 14]), w[Len(w) - 15])),
             n)

\* The message schedule of n words, eight words at a time.
RECURSIVE SHA_full_schedule(_, _)
SHA_full_schedule(w, n) ==
    IF Len(w) >= n THEN w ELSE SHA_full_schedule(SHA_schedule(w, Len(w) + 8), n)

SHA_round_out(s, t1, t2) ==
    << Add2W(t1, t2), s[1], s[2], s[3], Add2W(s[4], t1), s[5], s[6], s[7] >>

\* Rounds i .. n on the working variables s = << a, b, c, d, e, f, g, h >>.
\* (Len(s) is read first so that s is a value before the next round.)
RECURSIVE SHA_rounds(_, _, _, _, _)
SHA_rounds(s, w, k, i, n) ==
    IF Len(s) < 8 \/ i > n THEN s
    ELSE SHA_rounds(
             SHA_round_out(s,
                 Add5W(s[8], BSig1(s[5]), Ch(s[5], s[6], s[7]), k[i], w[i]),
                 Add2W(BSig0(s[1]), Maj(s[1], s[2], s[3]))),
             w, k, i + 1, n)

\* Rounds i .. Len(w), eight rounds at a time.
RECURSIVE SHA_all_rounds(_, _, _, _)
SHA_all_rounds(s, w, k, i) ==
    IF Len(s) < 8 \/ i > Len(w) THEN s
    ELSE SHA_all_rounds(SHA_rounds(s, w, k, i, i + 7), w, k, i + 8)

\* The 16 words of the block of m that starts after off bytes.
SHA_block_words(m, off, limbs) ==
    AsSeq([i \in 1 .. 16 |->
        AsSeq([j \in 1 .. limbs |->
            m[off + 2 * limbs * (i - 1) + 2 * j - 1] * 256
                + m[off + 2 * limbs * (i - 1) + 2 * j]])])

SHA_add_state(h, s) == AsSeq([i \in 1 .. 8 |-> Add2W(h[i], s[i])])

SHA_compress(h, m, off, md) ==
    SHA_add_state(h,
        SHA_all_rounds(h,
            SHA_full_schedule(SHA_block_words(m, off, Len(h[1])), Len(SHA_K(md))),
            SHA_K(md), 1))

RECURSIVE SHA_blocks(_, _, _, _)
SHA_blocks(h, m, off, md) ==
    IF Len(h) < 8 \/ off >= Len(m) THEN h
    ELSE SHA_blocks(SHA_compress(h, m, off, md), m, off + SHA_block(md), md)

\* m, 0x80, zeros, and the bit length of m in the last 8 (SHA-256) or 16
\* (SHA-384) bytes, to a whole number of blocks.
SHA_pad(m, md) ==
    LET blk == SHA_block(md)
        lenb == blk \div 8
        z == (2 * blk - 1 - lenb - (Len(m) % blk)) % blk
        bits == Len(m) * 8
    IN  m \o << 128 >> \o AsSeq([i \in 1 .. z + lenb - 4 |-> 0])
          \o << (bits \div 16777216) % 256, (bits \div 65536) % 256,
                (bits \div 256) % 256, bits % 256 >>

\* The words h as bytes, big-endian.
SHA_bytes(h, limbs) ==
    AsSeq([i \in 1 .. 2 * limbs * Len(h) |->
        IF i % 2 = 1
        THEN h[((i - 1) \div (2 * limbs)) + 1][(((i - 1) % (2 * limbs)) \div 2) + 1] \div 256
        ELSE h[((i - 1) \div (2 * limbs)) + 1][(((i - 1) % (2 * limbs)) \div 2) + 1] % 256])

\* The digest of m: 32 bytes for SHA256, 48 for SHA384.
SHA(md, m) ==
    SubSeq(SHA_bytes(SHA_blocks(SHA_H0(md), SHA_pad(m, md), 0, md),
                     IF md = "SHA256" THEN 2 ELSE 4),
           1, EVP_MD_size(md))

\* HMAC (RFC 2104) over the digest md.
HMAC_key(md, key) == IF Len(key) > SHA_block(md) THEN SHA(md, key) ELSE key

HMAC_pad(md, key, c) ==
    AsSeq([i \in 1 .. SHA_block(md) |-> BitXor(IF i <= Len(key) THEN key[i] ELSE 0, c)])

HMAC(md, key, msg) ==
    SHA(md, HMAC_pad(md, HMAC_key(md, key), 92)
               \o SHA(md, HMAC_pad(md, HMAC_key(md, key), 54) \o msg))

(***************************************************************************)
(* AES (FIPS 197) on byte sequences; the state is held column by column.   *)
(***************************************************************************)
XorBytes(a, b) == AsSeq([i \in 1 .. Len(a) |-> BitXor(a[i], b[i])])

AES_SBOX ==
    << 99, 124, 119, 123, 242, 107, 111, 197, 48, 1, 103, 43, 254, 215, 171, 118,
       202, 130, 201, 125, 250, 89, 71, 240, 173, 212, 162, 175, 156, 164, 114, 192,
       183, 253, 147, 38, 54, 63, 247, 204, 52, 165, 229, 241, 113, 216, 49, 21,
       4, 199, 35, 195, 24, 150, 5, 154, 7, 18, 128, 226, 235, 39, 178, 117,
       9, 131, 44, 26, 27, 110, 90, 160, 82, 59, 214, 179, 41, 227, 47, 132,
       83, 209, 0, 237, 32, 252, 177, 91, 106, 203, 190, 57, 74, 76, 88, 207,
       208, 239, 170, 251, 67, 77, 51, 133, 69, 249, 2, 127, 80, 60, 159, 168,
       81, 163, 64, 143, 146, 157, 56, 245, 188, 182, 218, 33, 16, 255, 243, 210,
       205, 12, 19, 236, 95, 151, 68, 23, 196, 167, 126, 61, 100, 93, 25, 115,
       96, 129, 79, 220, 34, 42, 144, 136, 70, 238, 184, 20, 222, 94, 11, 219,
       224, 50, 58, 10, 73, 6, 36, 92, 194, 211, 172, 98, 145, 149, 228, 121,
       231, 200, 55, 109, 141, 213, 78, 169, 108, 86, 244, 234, 101, 122, 174, 8,
       186, 120, 37, 46, 28, 166, 180, 198, 232, 221, 116, 31, 75, 189, 139, 138,
       112, 62, 181, 102, 72, 3, 246, 14, 97, 53, 87, 185, 134, 193, 29, 158,
       225, 248, 152, 17, 105, 217, 142, 148, 155, 30, 135, 233, 206, 85, 40, 223,
       140, 161, 137, 13, 191, 230, 66, 104, 65, 153, 45, 15, 176, 84, 187, 22 >>

AES_sub(b) == AES_SBOX[b + 1]

\* Multiplication by x in GF(2^8) modulo x^8 + x^4 + x^3 + x + 1.
AES_xtime(a) == BitXor((2 * a) % 256, IF a >= 128 THEN 27 ELSE 0)

\* The next four bytes of the key schedule w; i is the index of the word,
\* nk the number of words of the key, rcon the round constant.
AES_next_word(w, nk, i, rcon) ==
    XorBytes(SubSeq(w, Len(w) - 4 * nk + 1, Len(w) - 4 * nk + 4),
             IF i % nk = 0
             THEN << BitXor(AES_sub(w[Len(w) - 2]), rcon), AES_sub(w[Len(w) - 1]),
                     AES_sub(w[Len(w)]), AES_sub(w[Len(w) - 3]) >>
             ELSE IF nk > 6 /\ i % nk = 4
             THEN << AES_sub(w[Len(w) - 3]), AES_sub(w[Len(w) - 2]),
                     AES_sub(w[Len(w) - 1]), AES_sub(w[Len(w)]) >>
             ELSE SubSeq(w, Len(w) - 3, Len(w)))

RECURSIVE AES_expand_key(_, _, _, _)
AES_expand_key(w, nk, total, rcon) ==
    IF Len(w) >= total THEN w
    ELSE AES_expand_key(w \o AES_next_word(w, nk, Len(w) \div 4, rcon), nk, total,
                        IF (Len(w) \div 4) % nk = 0 THEN AES_xtime(rcon) ELSE rcon)

\* The round keys of key: 16 * (rounds + 1) bytes, rounds = Len(key) / 4 + 6.
AES_round_keys(key) ==
    AES_expand_key(key, Len(key) \div 4, 16 * ((Len(key) \div 4) + 7), 1)

\* SubBytes and ShiftRows.
AES_sub_shift(s) ==
    AsSeq([i \in 1 .. 16 |-> AES_sub(s[(((i - 1) + 4 * ((i - 1) % 4)) % 16) + 1])])

\* Byte j (0 .. 3) of column c (0 .. 3) of s.
AES_at(s, c, j) == s[4 * c + (j % 4) + 1]

AES_mix_columns(s) ==
    AsSeq([i \in 1 .. 16 |->
        BitXor(BitXor(AES_xtime(AES_at(s, (i - 1) \div 4, i - 1)),
                      BitXor(AES_xtime(AES_at(s, (i - 1) \div 4, i)),
                             AES_at(s, (i - 1) \div 4, i))),
               BitXor(AES_at(s, (i - 1) \div 4, i + 1),
                      AES_at(s, (i - 1) \div 4, i + 2)))])

RECURSIVE AES_rounds(_, _, _, _)
AES_rounds(s, rd_key, rounds, r) ==
    IF Len(s) < 16 \/ r > rounds THEN s
    ELSE AES_rounds(
             XorBytes(IF r < rounds THEN AES_mix_columns(AES_sub_shift(s))
                      ELSE AES_sub_shift(s),
                      SubSeq(rd_key, 16 * r + 1, 16 * r + 16)),
             rd_key, rounds, r + 1)

\* The encryption of one 16-byte block under the round keys rd_key.
AES_encrypt_block(block, rd_key, rounds) ==
    AES_rounds(XorBytes(block, SubSeq(rd_key, 1, 16)), rd_key, rounds, 1)

(***************************************************************************)
(* AES-GCM (NIST SP 800-38D).  An element of GF(2^128) is the set of the   *)
(* exponents of its terms; in a 16-byte block the coefficient of x^0 is    *)
(* the top bit of the first byte.                                          *)
(***************************************************************************)
GCM_pad16(b) == b \o Zeros((16 - (Len(b) % 16)) % 16)

\* The 64-bit big-endian encoding of n < 2^31.
GCM_be64(n) ==
    << 0, 0, 0, 0, (n \div 16777216) % 256, (n \div 65536) % 256,
       (n \div 256) % 256, n % 256 >>

\* Bit i (0 .. 127) of the block at offset off of b, the top bit of the
\* first byte first.
GCM_bit(b, off, i) == (b[off + (i \div 8) + 1] \div 2^(7 - (i % 8))) % 2

\* The field element of the block at offset off of b, and back.
GCM_element(b, off) == { i \in 0 .. 127 : GCM_bit(b, off, i) = 1 }

GCM_block(e) ==
    AsSeq([j \in 1 .. 16 |->
        (IF 8 * j - 8 \in e THEN 128 ELSE 0) + (IF 8 * j - 7 \in e THEN 64 ELSE 0)
      + (IF 8 * j - 6 \in e THEN 32 ELSE 0) + (IF 8 * j - 5 \in e THEN 16 ELSE 0)
      + (IF 8 * j - 4 \in e THEN 8 ELSE 0) + (IF 8 * j - 3 \in e THEN 4 ELSE 0)
      + (IF 8 * j - 2 \in e THEN 2 ELSE 0) + (IF 8 * j - 1 \in e THEN 1 ELSE 0)])

\* a + b in GF(2^128).
GCM_add(a, b) == (a \ b) \cup (b \ a)

\* a * x in GF(2^128): x^128 = x^7 + x^2 + x + 1.
GCM_times_x(a) ==
    GCM_add({ i + 1 : i \in a \ { 127 } }, IF 127 \in a THEN { 0, 1, 2, 7 } ELSE { })

\* t = << h, h * x, h * x^2, ... >> extended to n elements.
RECURSIVE GCM_powers(_, _)
GCM_powers(t, n) ==
    IF Len(t) >= n THEN t ELSE GCM_powers(Append(t, GCM_times_x(t[Len(t)])), n)

\* << h, h * x, ..., h * x^127 >>, sixteen elements at a time.
RECURSIVE GCM_htable(_)
GCM_htable(t) ==
    IF Len(t) >= 128 THEN t
    ELSE GCM_htable(GCM_powers(t, Len(t) + 16 - (Len(t) % 16)))

\* The sum of htable[i + 1] over the exponents i in lo .. hi of y: y * h.
RECURSIVE GCM_mul(_, _, _, _)
GCM_mul(y, htable, lo, hi) ==
    IF lo = hi
    THEN IF lo \in y THEN htable[lo + 1] ELSE { }
    ELSE GCM_add(GCM_mul(y, htable, lo, (lo + hi) \div 2),
                 GCM_mul(y, htable, ((lo + hi) \div 2) + 1, hi))

\* GHASH of data (a whole number of blocks) from the element y.  (y is
\* compared first so that it is a value before the next block.)
RECURSIVE GHASH(_, _, _, _)
GHASH(y, htable, data, off) ==
    IF y = { 128 } \/ off >= Len(data) THEN y
    ELSE GHASH(GCM_mul(GCM_add(y, GCM_element(data, off)), htable, 0, 127),
               htable, data, off + 16)

\* The pre-counter block of the nonce.
GCM_j0(htable, nonce) ==
    IF Len(nonce) = 12 THEN nonce \o << 0, 0, 0, 1 >>
    ELSE GCM_block(GHASH({ }, htable,
                         GCM_pad16(nonce) \o Zeros(8) \o GCM_be64(8 * Len(nonce)), 0))

\* The counter block j with n added to its last 32 bits.
GCM_inc32(j, n) ==
    LET c == ((j[15] * 256 + j[16]) + n) % 65536
        h == ((j[13] * 256 + j[14]) + (((j[15] * 256 + j[16]) + n) \div 65536)) % 65536
    IN  SubSeq(j, 1, 12) \o << h \div 256, h % 256, c \div 256, c % 256 >>

\* n bytes of the counter-mode keystream that follows the block j0.
RECURSIVE GCM_keystream(_, _, _, _, _)
GCM_keystream(rd_key, rounds, j0, n, k) ==
    IF 16 * (k - 1) >= n THEN << >>
    ELSE SubSeq(AES_encrypt_block(GCM_inc32(j0, k), rd_key, rounds),
                1, IF n - 16 * (k - 1) < 16 THEN n - 16 * (k - 1) ELSE 16)
            \o GCM_keystream(rd_key, rounds, j0, n, k + 1)

GCM_tag_block(rd_key, rounds, htable, j0, ad, ct) ==
    XorBytes(GCM_block(GHASH({ }, htable,
                             GCM_pad16(ad) \o GCM_pad16(ct)
                                 \o GCM_be64(8 * Len(ad)) \o GCM_be64(8 * Len(ct)), 0)),
             AES_encrypt_block(j0, rd_key, rounds))

(***************************************************************************)
(* ChaCha20 and Poly1305 (RFC 8439).  A ChaCha20 word is two 16-bit limbs, *)
(* the high one first.                                                     *)
(***************************************************************************)
\* The little-endian 32-bit word at byte offset off of b.
CHACHA_word(b, off) == << b[off + 4] * 256 + b[off + 3], b[off + 2] * 256 + b[off + 1] >>

\* a += b; d ^= a; d <<<= n
CHACHA_step(st, a, b, d, n) ==
    [st EXCEPT ![a] = Add2W(st[a], st[b]),
               ![d] = RotrW(XorW(st[d], Add2W(st[a], st[b])), 32 - n)]

CHACHA_quarter_round(st, a, b, c, d) ==
    CHACHA_step(CHACHA_step(CHACHA_step(CHACHA_step(st, a, b, d, 16), c, d, b, 12),
                            a, b, d, 8), c, d, b, 7)

\* The quarter rounds of a double round: the columns, then the diagonals.
CHACHA_QR ==
    << << 1, 5, 9, 13 >>, << 2, 6, 10, 14 >>, << 3, 7, 11, 15 >>, << 4, 8, 12, 16 >>,
       << 1, 6, 11, 16 >>, << 2, 7, 12, 13 >>, << 3, 8, 9, 14 >>, << 4, 5, 10, 15 >> >>

\* The quarter rounds q .. 8 of a double round.  (Len(st) is read first so
\* that st is a value before the next quarter round.)
RECURSIVE CHACHA_double_round(_, _)
CHACHA_double_round(st, q) ==
    IF Len(st) < 16 \/ q > 8 THEN st
    ELSE CHACHA_double_round(
             CHACHA_quarter_round(st, CHACHA_QR[q][1], CHACHA_QR[q][2],
                                  CHACHA_QR[q][3], CHACHA_QR[q][4]),
             q + 1)

\* n double rounds.
RECURSIVE CHACHA_rounds(_, _)
CHACHA_rounds(st, n) ==
    IF Len(st) < 16 \/ n = 0 THEN st
    ELSE CHACHA_rounds(CHACHA_double_round(st, 1), n - 1)

\* "expand 32-byte k", the key, the block counter and the nonce.
CHACHA_init(key, counter, nonce) ==
    << << 24944, 30821 >>, << 13088, 25710 >>, << 31074, 11570 >>, << 27424, 25972 >> >>
        \o AsSeq([i \in 1 .. 8 |-> CHACHA_word(key, 4 * (i - 1))])
        \o << counter >>
        \o AsSeq([i \in 1 .. 3 |-> CHACHA_word(nonce, 4 * (i - 1))])

\* The words st as bytes, each word little-endian.
CHACHA_bytes(st) ==
    AsSeq([i \in 1 .. 64 |->
        IF (i - 1) % 4 = 0 THEN st[((i - 1) \div 4) + 1][2] % 256
        ELSE IF (i - 1) % 4 = 1 THEN st[((i - 1) \div 4) + 1][2] \div 256
        ELSE IF (i - 1) % 4 = 2 THEN st[((i - 1) \div 4) + 1][1] % 256
        ELSE st[((i - 1) \div 4) + 1][1] \div 256])

CHACHA_add(a, b) == AsSeq([i \in 1 .. 16 |-> Add2W(a[i], b[i])])

CHACHA_finish(st0) == CHACHA_bytes(CHACHA_add(CHACHA_rounds(st0, 10), st0))

\* The 64-byte keystream block of (key, counter, nonce).
CHACHA_block(key, counter, nonce) == CHACHA_finish(CHACHA_init(key, counter, nonce))

\* n bytes of keystream from block counter on; k counts the blocks done.
RECURSIVE CHACHA_keystream(_, _, _, _, _)
CHACHA_keystream(key, counter, nonce, n, k) ==
    IF 64 * k >= n THEN << >>
    ELSE SubSeq(CHACHA_block(key, Add2W(counter, << k \div 65536, k % 65536 >>), nonce),
                1, IF n - 64 * k < 64 THEN n - 64 * k ELSE 64)
            \o CHACHA_keystream(key, counter, nonce, n, k + 1)

\* Poly1305 numbers are 13 limbs of 10 bits, the least significant first.
\* Limb k (from 0) of the little-endian bytes b.
POLY_limb(b, k) ==
    (((IF (10 * k) \div 8 + 1 <= Len(b) THEN b[(10 * k) \div 8 + 1] ELSE 0)
        + 256 * (IF (10 * k) \div 8 + 2 <= Len(b) THEN b[(10 * k) \div 8 + 2] ELSE 0))
       \div 2^((10 * k) % 8)) % 1024

POLY_limbs(b) == AsSeq([i \in 1 .. 13 |-> POLY_limb(b, i - 1)])

\* r with the bits cleared that Poly1305 requires to be clear.
POLY_clamp(r) ==
    AsSeq([i \in 1 .. 16 |->
        IF i \in { 4, 8, 12, 16 } THEN r[i] % 16
        ELSE IF i \in { 5, 9, 13 } THEN (r[i] \div 4) * 4
        ELSE r[i]])

\* Column k (from 0) of a * r; rr is 5 * r followed by r, since
\* 2^130 = 5 modulo 2^130 - 5.
POLY_column(a, rr, k) ==
    a[1] * rr[k + 14] + a[2] * rr[k + 13] + a[3] * rr[k + 12] + a[4] * rr[k + 11]
  + a[5] * rr[k + 10] + a[6] * rr[k + 9] + a[7] * rr[k + 8] + a[8] * rr[k + 7]
  + a[9] * rr[k + 6] + a[10] * rr[k + 5] + a[11] * rr[k + 4] + a[12] * rr[k + 3]
  + a[13] * rr[k + 2]

\* The limbs of c from i on with the carry added, each below 2^10, and the
\* carry out of limb 13 as the last element.
RECURSIVE POLY_carry(_, _, _)
POLY_carry(c, i, carry) ==
    IF i > 13 THEN << carry >>
    ELSE << (c[i] + carry) % 1024 >> \o POLY_carry(c, i + 1, (c[i] + carry) \div 1024)

\* c with every limb below 2^10, modulo 2^130 - 5; c has the carry out of
\* limb 13 as element 14.
RECURSIVE POLY_normal(_)
POLY_normal(c) ==
    IF c[14] = 0 THEN SubSeq(c, 1, 13) ELSE POLY_normal(POLY_carry(c, 1, 5 * c[14]))

POLY_mul(a, rr) ==
    POLY_normal(POLY_carry(AsSeq([i \in 1 .. 13 |-> POLY_column(a, rr, i - 1)]), 1, 0))

\* r as POLY_mul takes it.
POLY_rr(r) == AsSeq([i \in 1 .. 26 |-> IF i <= 13 THEN 5 * r[i] ELSE r[i - 13]])

POLY_add(a, b) == AsSeq([i \in 1 .. 13 |-> a[i] + b[i]])

\* The accumulator after the blocks of msg from off on.  (Len(acc) is read
\* first so that acc is a value before the next block.)
RECURSIVE POLY_blocks(_, _, _, _)
POLY_blocks(acc, rr, msg, off) ==
    IF Len(acc) < 13 \/ off >= Len(msg) THEN acc
    ELSE POLY_blocks(
             POLY_mul(POLY_add(acc,
                          POLY_limbs(SubSeq(msg, off + 1,
                                            IF off + 16 < Len(msg) THEN off + 16 ELSE Len(msg))
                                        \o << 1 >>)),
                      rr),
             rr, msg, off + 16)

\* h reduced modulo 2^130 - 5, for h below 2^130.
POLY_reduce(h) ==
    IF h[1] >= 1019 /\ \A i \in 2 .. 13 : h[i] = 1023
    THEN << h[1] - 1019 >> \o Zeros(12)
    ELSE h

\* Byte j (from 0) of the number h.
POLY_byte(h, j) ==
    ((h[(8 * j) \div 10 + 1]
        + 1024 * (IF (8 * j) \div 10 + 2 <= 13 THEN h[(8 * j) \div 10 + 2] ELSE 0))
       \div 2^((8 * j) % 10)) % 256

\* The carry into byte i of the bytewise sum of a and b.
RECURSIVE POLY_byte_carry(_, _, _)
POLY_byte_carry(a, b, i) ==
    IF i = 1 THEN 0 ELSE (a[i - 1] + b[i - 1] + POLY_byte_carry(a, b, i - 1)) \div 256

\* (a + b) modulo 2^128 on little-endian bytes.
POLY_add128(a, b) ==
    AsSeq([i \in 1 .. 16 |-> (a[i] + b[i] + POLY_byte_carry(a, b, i)) % 256])

\* The Poly1305 tag of msg under the 32-byte one-time key.
POLY1305(key, msg) ==
    POLY_add128(
        AsSeq([i \in 1 .. 16 |->
            POLY_byte(POLY_reduce(POLY_blocks(Zeros(13),
                                              POLY_rr(POLY_limbs(POLY_clamp(SubSeq(key, 1, 16)))),
                                              msg, 0)),
                      i - 1)]),
        SubSeq(key, 17, 32))

\* The 64-bit little-endian encoding of n < 2^31.
POLY_le64(n) ==
    << n % 256, (n \div 256) % 256, (n \div 65536) % 256, (n \div 16777216) % 256,
       0, 0, 0, 0 >>

(***************************************************************************)
(* The functions of the extern block, on top of the algorithms above.      *)
(***************************************************************************)
\* HKDF_extract (RFC 5869): the PRK is HMAC(salt, secret); rc 1.
HKDF_extract(md, secret, salt) ==
    [rc |-> 1, out_key |-> HMAC(md, salt, secret), out_len |-> EVP_MD_size(md)]

\* okm = T(1) .. T(i) extended to T(1) .. T(n), where
\* T(k) = HMAC(prk, T(k - 1) || info || k).  (Len(okm) is read first so
\* that okm is a value before the next block.)
RECURSIVE HKDF_blocks(_, _, _, _, _, _)
HKDF_blocks(md, prk, info, okm, i, n) ==
    IF Len(okm) < 0 \/ i >= n THEN okm
    ELSE HKDF_blocks(md, prk, info,
             okm \o HMAC(md, prk,
                         (IF i = 0 THEN << >>
                          ELSE SubSeq(okm, Len(okm) - EVP_MD_size(md) + 1, Len(okm)))
                             \o info \o << i + 1 >>),
             i + 1, n)

\* T(1) .. T(n), sixteen blocks at a time.
RECURSIVE HKDF_okm(_, _, _, _, _)
HKDF_okm(md, prk, info, okm, n) ==
    IF Len(okm) >= n * EVP_MD_size(md) THEN okm
    ELSE HKDF_okm(md, prk, info,
             HKDF_blocks(md, prk, info, okm, Len(okm) \div EVP_MD_size(md),
                         IF (Len(okm) \div EVP_MD_size(md)) + 16 < n
                         THEN (Len(okm) \div EVP_MD_size(md)) + 16 ELSE n),
             n)

\* HKDF_expand (RFC 5869): the first out_len bytes of T(1) || T(2) || ...,
\* or rc 0 when more than 255 blocks are asked.
HKDF_expand(out_len, md, prk, info) ==
    IF out_len > 255 * EVP_MD_size(md)
    THEN [rc |-> 0, out_key |-> << >>]
    ELSE [rc |-> 1,
          out_key |-> SubSeq(HKDF_okm(md, prk, info, << >>,
                                      (out_len + EVP_MD_size(md) - 1) \div EVP_MD_size(md)),
                             1, out_len)]

EVP_AEAD_max_overhead(aead) == 16

\* EVP_AEAD_CTX_init: the context keeps the algorithm, the key and tag_len.
EVP_AEAD_CTX_init(aead, key, klen, tlen) ==
    IF klen # Len(key) \/ klen # key_len(aead) \/ tlen > 16
    THEN [rc |-> 0]
    ELSE [rc |-> 1,
          ctx |-> [aead |-> aead, key |-> key,
                   tag_len |-> IF tlen = 0 THEN 16 ELSE tlen]]

\* The nonce lengths an algorithm takes: exactly 12 bytes for
\* ChaCha20-Poly1305, any length but 0 for AES-GCM.
AEAD_nonce_ok(ctx, nonce) ==
    IF ctx.aead = "ChaCha20_Poly1305" THEN Len(nonce) = 12 ELSE Len(nonce) > 0

\* The hash table of AES-GCM: the powers of H = AES(0^128) times x^i.
AES_GCM_htable(rd_key, rounds) ==
    GCM_htable(<< GCM_element(AES_encrypt_block(Zeros(16), rd_key, rounds), 0) >>)

\* AES-GCM keystream under the round keys.  (Their length is read first so
\* that they are a value before the blocks are encrypted.)
AES_GCM_keystream(rd_key, rounds, nonce, n) ==
    IF Len(rd_key) = 0 THEN << >>
    ELSE GCM_keystream(rd_key, rounds,
                       GCM_j0(AES_GCM_htable(rd_key, rounds), nonce), n, 1)

AES_GCM_tag_of(rd_key, rounds, htable, nonce, ad, ct) ==
    IF Len(htable) = 0 \/ Len(ct) < 0 THEN << >>
    ELSE GCM_tag_block(rd_key, rounds, htable, GCM_j0(htable, nonce), ad, ct)

AES_GCM_tag(rd_key, rounds, nonce, ad, ct) ==
    IF Len(rd_key) = 0 THEN << >>
    ELSE AES_GCM_tag_of(rd_key, rounds, AES_GCM_htable(rd_key, rounds), nonce, ad, ct)

\* The ChaCha20-Poly1305 tag under the one-time key otk (RFC 8439, 2.8).
CHAPOLY_tag(otk, ad, ct) ==
    IF Len(otk) # 32 \/ Len(ct) < 0 THEN << >>
    ELSE POLY1305(otk, GCM_pad16(ad) \o GCM_pad16(ct)
                           \o POLY_le64(Len(ad)) \o POLY_le64(Len(ct)))

\* The first n bytes of the keystream that encrypts the data under
\* (ctx, nonce): AES in counter mode from inc32(J0), ChaCha20 from block 1.
KeyStream(ctx, nonce, n) ==
    IF ctx.aead = "ChaCha20_Poly1305"
    THEN CHACHA_keystream(ctx.key, << 0, 1 >>, nonce, n, 0)
    ELSE AES_GCM_keystream(AES_round_keys(ctx.key), (Len(ctx.key) \div 4) + 6, nonce, n)

\* data XORed with the keystream bytes offset + 1 .. offset + Len(data).
Crypt(ctx, nonce, data, offset) ==
    XorBytes(data, SubSeq(KeyStream(ctx, nonce, offset + Len(data)),
                          offset + 1, offset + Len(data)))

\* The authentication tag over (ad, ciphertext) under (ctx, nonce).
Tag(ctx, nonce, ad, ct) ==
    SubSeq(IF ctx.aead = "ChaCha20_Poly1305"
           THEN CHAPOLY_tag(SubSeq(CHACHA_block(ctx.key, << 0, 0 >>, nonce), 1, 32),
                            ad, ct)
           ELSE AES_GCM_tag(AES_round_keys(ctx.key), (Len(ctx.key) \div 4) + 6,
                            nonce, ad, ct),
           1, ctx.tag_len)

\* A successful seal: ct is the ciphertext of inp followed by that of
\* extra_in; the rest of out_tag is left as it was.
AEAD_sealed(ctx, out_tag, nonce, in_len, ad, ct) ==
    [rc |-> 1, out |-> SubSeq(ct, 1, in_len),
     out_tag |-> SubSeq(ct, in_len + 1, Len(ct)) \o Tag(ctx, nonce, ad, ct)
                    \o SubSeq(out_tag, Len(ct) - in_len + ctx.tag_len + 1, Len(out_tag)),
     out_tag_len |-> Len(ct) - in_len + ctx.tag_len]

\* EVP_AEAD_CTX_seal_scatter: encrypts inp in place, writes the ciphertext
\* of extra_in followed by the tag into out_tag; on failure both outputs
\* are cleared.
EVP_AEAD_CTX_seal_scatter(ctx, out_tag, max_out_tag_len, nonce, inp, extra_in, ad) ==
    IF max_out_tag_len < Len(extra_in) + ctx.tag_len \/ ~AEAD_nonce_ok(ctx, nonce)
    THEN [rc |-> 0, out |-> Zeros(Len(inp)),
          out_tag |-> [i \in 1 .. Len(out_tag) |->
                          IF i <= max_out_tag_len THEN 0 ELSE out_tag[i]],
          out_tag_len |-> 0]
    ELSE AEAD_sealed(ctx, out_tag, nonce, Len(inp), ad,
                     Crypt(ctx, nonce, inp \o extra_in, 0))

\* EVP_AEAD_CTX_open: verifies the trailing tag and decrypts in place (out
\* is the buffer inp); on any failure the first max_out_len bytes of the
\* buffer are cleared and the rest is left as it was.
EVP_AEAD_CTX_open(ctx, max_out_len, nonce, inp, ad) ==
    IF \/ Len(inp) < ctx.tag_len
       \/ ~AEAD_nonce_ok(ctx, nonce)
       \/ max_out_len < Len(inp) - ctx.tag_len
       \/ SubSeq(inp, Len(inp) - ctx.tag_len + 1, Len(inp))
              # Tag(ctx, nonce, ad, SubSeq(inp, 1, Len(inp) - ctx.tag_len))
    THEN [rc |-> 0,
          out |-> [i \in 1 .. Len(inp) |-> IF i <= max_out_len THEN 0 ELSE inp[i]],
          out_len |-> 0]
    ELSE [rc |-> 1,
          out |-> Crypt(ctx, nonce, SubSeq(inp, 1, Len(inp) - ctx.tag_len), 0)
                     \o SubSeq(inp, Len(inp) - ctx.tag_len + 1, Len(inp)),
          out_len |-> Len(inp) - ctx.tag_len]

\* AES_set_encrypt_key: the round keys of the first bits / 8 bytes of key;
\* rc 0 on success.
AES_set_encrypt_key(key, bits) ==
    IF bits \in { 128, 192, 256 }
    THEN [rc |-> 0,
          aes_key |-> [rd_key |-> AES_round_keys(SubSeq(key, 1, bits \div 8)),
                       rounds |-> (bits \div 32) + 6]]
    ELSE [rc |-> -2]

\* AES_encrypt: one 16-byte block.
AES_encrypt(input, key) == AES_encrypt_block(input, key.rd_key, key.rounds)

\* CRYPTO_chacha_20: inp XOR the keystream of (key, nonce) from the block
\* counter on.
CRYPTO_chacha_20(inp, key, nonce, counter) ==
    XorBytes(inp, CHACHA_keystream(key, counter, nonce, Len(inp), 0))

(***************************************************************************)
(* Prk and HKDF-Expand-Label.                                              *)
(***************************************************************************)
RECURSIVE Flatten(_)
Flatten(parts) ==
    IF parts = <<>> THEN <<>> ELSE Head(parts) \o Flatten(Tail(parts))

Prk_new(alg, salt, secret) ==
    Bind(HKDF_extract(get_evp_md(alg), secret, salt), LAMBDA r :
    IF r.rc = 1 THEN Ok([alg |-> alg, key |-> r.out_key]) ELSE CryptoFail)

Prk_new_less_safe(alg, value) == [alg |-> alg, key |-> value]

\* What the len bytes HKDF_expand writes through out.as_mut_ptr() do to the
\* slice out.  With len <= out.len() they fill its first len bytes.  With
\* len > out.len() the write runs past the slice, which is undefined
\* behaviour: either out (still out.len() bytes) holds the head of the
\* output and the rest lands in the memory after it (past_end), or the
\* write faults.
WriteOutKey(out_key, len, out) ==
    IF len <= Len(out)
    THEN Ok(out_key \o SubSeq(out, len + 1, Len(out)))
    ELSE Undefined({ [status |-> "Ok",
                      val |-> SubSeq(out_key, 1, Len(out)),
                      past_end |-> SubSeq(out_key, Len(out) + 1, len)],
                     Fault("HKDF_expand writes past the end of out") })

\* Prk::expand: CryptoFail, or what HKDF_expand's write leaves; len is not
\* compared with out.len().
Prk_expand(prk, info, len, out) ==
    IF len > 255 * prk_len(prk.alg) THEN CryptoFail
    ELSE Bind(HKDF_expand(len, get_evp_md(prk.alg), prk.key, Flatten(info)), LAMBDA r :
         IF r.rc = 1
         THEN WriteOutKey(r.out_key, len, out)
         ELSE CryptoFail)

LABEL_PREFIX == << 116, 108, 115, 49, 51, 32 >>

\* HkdfLabelInfo with the length of the label alone in the label-length
\* byte.
HkdfLabelInfo_label_len_only(label, out_len) ==
    << << (out_len % 65536) \div 256, out_len % 256 >>,
       << Len(label) % 256 >>,
       LABEL_PREFIX,
       label,
       << 0 >> >>

\* The HkdfLabel fragments hkdf_expand_label hands to Prk::expand.
HkdfLabelInfo(label, out_len) ==
    << << (out_len % 65536) \div 256, out_len % 256 >>,
       << (Len(LABEL_PREFIX) + Len(label)) % 256 >>,
       LABEL_PREFIX,
       label,
       << 0 >> >>

hkdf_expand_label(prk, label, out) ==
    Prk_expand(prk, HkdfLabelInfo(label, Len(out)), Len(out), out)

(***************************************************************************)
(* Key-schedule derivations.  Each takes the output buffer and gives back  *)
(* Ok(buffer after the call) or CryptoFail.                                *)
(***************************************************************************)
LABEL_CLIENT_IN == << 99, 108, 105, 101, 110, 116, 32, 105, 110 >>

LABEL_SERVER_IN == << 115, 101, 114, 118, 101, 114, 32, 105, 110 >>

LABEL_KU == << 113, 117, 105, 99, 32, 107, 117 >>

LABEL_HP == << 113, 117, 105, 99, 32, 104, 112 >>

LABEL_KEY == << 113, 117, 105, 99, 32, 107, 101, 121 >>

LABEL_IV == << 113, 117, 105, 99, 32, 105, 118 >>

INITIAL_SALT_V1 ==
    << 56, 118, 44, 247, 245, 89, 52, 179, 77, 23, 154, 230,
       164, 200, 12, 173, 204, 187, 127, 10 >>

PROTOCOL_VERSION_V1 == 1

derive_initial_secret(secret, version) ==
    LET salt == IF version = PROTOCOL_VERSION_V1
                THEN INITIAL_SALT_V1 ELSE INITIAL_SALT_V1
    IN  Prk_new("AES128_GCM", salt, secret)

derive_client_initial_secret(prk, out) == hkdf_expand_label(prk, LABEL_CLIENT_IN, out)

derive_server_initial_secret(prk, out) == hkdf_expand_label(prk, LABEL_SERVER_IN, out)

derive_next_secret(aead, secret) ==
    hkdf_expand_label(Prk_new_less_safe(aead, secret), LABEL_KU, Zeros(Len(secret)))

\* The shared shape of derive_hdr_key / derive_pkt_key / derive_pkt_iv:
\* expand into out[..want], leaving the bytes after it alone.
DeriveInto(aead, secret, label, want, out) ==
    IF want > Len(out) THEN CryptoFail
    ELSE Bind(hkdf_expand_label(Prk_new_less_safe(aead, secret), label,
                                    SubSeq(out, 1, want)), LAMBDA r :
             IF IsOk(r)
             THEN Ok(r.val \o SubSeq(out, want + 1, Len(out)))
             ELSE CryptoFail)

derive_hdr_key(aead, secret, out) ==
    DeriveInto(aead, secret, LABEL_HP, key_len(aead), out)

derive_pkt_key(aead, secret, out) ==
    DeriveInto(aead, secret, LABEL_KEY, key_len(aead), out)

derive_pkt_iv(aead, secret, out) ==
    DeriveInto(aead, secret, LABEL_IV, nonce_len(aead), out)

(***************************************************************************)
(* EVP_AEAD_CTX, AES_KEY, HeaderProtectionKey, PacketKey.                  *)
(***************************************************************************)
EVP_AEAD_CTX_new(alg, key) ==
    IF Len(key) # key_len(alg) THEN CryptoFail
    ELSE LET r == EVP_AEAD_CTX_init(alg, key, key_len(alg), tag_len(alg)) IN
         IF r.rc # 1 THEN CryptoFail ELSE Ok(r.ctx)

None == [some |-> FALSE]

Some(v) == [some |-> TRUE, val |-> v]

OptBytes(o) == IF o.some THEN o.val ELSE <<>>

\* EVP_AEAD_CTX::open with the return code of the primitive ignored.
open_unchecked_rc(ctx, in_out, nonce, ad) ==
    Bind(EVP_AEAD_CTX_open(ctx, Len(in_out), nonce, in_out, ad), LAMBDA r :
    [r |-> Ok(r.out_len), in_out |-> r.out])

\* EVP_AEAD_CTX::open returning the input length instead of out_len.
open_returns_in_len(ctx, in_out, nonce, ad) ==
    Bind(EVP_AEAD_CTX_open(ctx, Len(in_out), nonce, in_out, ad), LAMBDA r :
    [r |-> IF r.rc = 1 THEN Ok(Len(in_out)) ELSE CryptoFail,
     in_out |-> r.out])

\* EVP_AEAD_CTX::open: the result and in_out after the call.
open(ctx, in_out, nonce, ad) ==
    Bind(EVP_AEAD_CTX_open(ctx, Len(in_out), nonce, in_out, ad), LAMBDA r :
    [r |-> IF r.rc = 1 THEN Ok(r.out_len) ELSE CryptoFail,
     in_out |-> r.out])

\* EVP_AEAD_CTX::seal_scatter reporting the overhead alone as out_tag_len.
seal_scatter_overhead_only(ctx, in_out, out_tag, nonce, extra_in, ad) ==
    LET extra_in_len == Len(OptBytes(extra_in))
        max_out_tag_len == EVP_AEAD_max_overhead(ctx.aead) + extra_in_len
    IN  IF max_out_tag_len > Len(out_tag)
        THEN [r |-> CryptoFail, in_out |-> in_out, out_tag |-> out_tag]
        ELSE Bind(EVP_AEAD_CTX_seal_scatter(ctx, out_tag, max_out_tag_len,
                                                nonce, in_out, OptBytes(extra_in), ad), LAMBDA r :
                 [r |-> IF r.rc = 1 THEN Ok(EVP_AEAD_max_overhead(ctx.aead))
                        ELSE CryptoFail,
                  in_out |-> r.out, out_tag |-> r.out_tag])

\* EVP_AEAD_CTX::seal_scatter: the result and both slices after the call.
seal_scatter(ctx, in_out, out_tag, nonce, extra_in, ad) ==
    LET extra_in_len == Len(OptBytes(extra_in))
        max_out_tag_len == EVP_AEAD_max_overhead(ctx.aead) + extra_in_len
    IN  IF max_out_tag_len > Len(out_tag)
        THEN [r |-> CryptoFail, in_out |-> in_out, out_tag |-> out_tag]
        ELSE Bind(EVP_AEAD_CTX_seal_scatter(ctx, out_tag, max_out_tag_len,
                                                nonce, in_out, OptBytes(extra_in), ad), LAMBDA r :
                 [r |-> IF r.rc = 1 THEN Ok(r.out_tag_len) ELSE CryptoFail,
                  in_out |-> r.out, out_tag |-> r.out_tag])

AES_KEY_new(bits, key) ==
    IF Len(key) # bits \div 8 THEN CryptoFail
    ELSE Bind(AES_set_encrypt_key(key, bits), LAMBDA r :
         IF r.rc # 0 THEN CryptoFail ELSE Ok(r.aes_key))

AES_KEY_new_mask(aes_key, sample) == SubSeq(AES_encrypt(sample, aes_key), 1, 5)

chacha_mask(key, sample) ==
    IF Len(key) # 32 THEN CryptoFail
    ELSE LET counter == from_le_bytes(SubSeq(sample, 1, 4))
             nonce == SubSeq(sample, 5, 16)
         IN  Ok(CRYPTO_chacha_20(Zeros(5), key, nonce, counter))

SAMPLE_LEN == 16

HeaderProtectionKey_new(alg, hp_key) ==
    IF Len(hp_key) = key_len(alg)
    THEN Ok([alg |-> alg, hp_key |-> hp_key])
    ELSE CryptoFail

HeaderProtectionKey_from_secret(aead, secret) ==
    Bind(derive_hdr_key(aead, secret, Zeros(key_len(aead))), LAMBDA r :
    IF IsOk(r) THEN HeaderProtectionKey_new(aead, r.val) ELSE CryptoFail)

\* HeaderProtectionKey::new_mask taking the first 16 bytes of a longer
\* sample instead of refusing it.
HeaderProtectionKey_new_mask_prefix(self, sample) ==
    IF Len(sample) < SAMPLE_LEN THEN CryptoFail
    ELSE CASE self.alg = "AES128_GCM" ->
                Bind(AES_KEY_new(128, self.hp_key), LAMBDA k :
                IF IsOk(k) THEN Ok(AES_KEY_new_mask(k.val, SubSeq(sample, 1, 16)))
                ELSE CryptoFail)
           [] self.alg = "AES256_GCM" ->
                Bind(AES_KEY_new(256, self.hp_key), LAMBDA k :
                IF IsOk(k) THEN Ok(AES_KEY_new_mask(k.val, SubSeq(sample, 1, 16)))
                ELSE CryptoFail)
           [] self.alg = "ChaCha20_Poly1305" ->
                chacha_mask(self.hp_key, SubSeq(sample, 1, 16))

HeaderProtectionKey_new_mask(self, sample) ==
    IF Len(sample) # SAMPLE_LEN THEN CryptoFail
    ELSE CASE self.alg = "AES128_GCM" ->
                Bind(AES_KEY_new(128, self.hp_key), LAMBDA k :
                IF IsOk(k) THEN Ok(AES_KEY_new_mask(k.val, sample)) ELSE CryptoFail)
           [] self.alg = "AES256_GCM" ->
                Bind(AES_KEY_new(256, self.hp_key), LAMBDA k :
                IF IsOk(k) THEN Ok(AES_KEY_new_mask(k.val, sample)) ELSE CryptoFail)
           [] self.alg = "ChaCha20_Poly1305" -> chacha_mask(self.hp_key, sample)

PacketKey_new(alg, key, iv) ==
    LET c == EVP_AEAD_CTX_new(alg, key) IN
    IF IsOk(c) THEN Ok([ctx |-> c.val, nonce |-> iv]) ELSE CryptoFail

PacketKey_from_secret(aead, secret) ==
    Bind(derive_pkt_key(aead, secret, Zeros(key_len(aead))), LAMBDA k :
    IF ~IsOk(k) THEN CryptoFail
    ELSE Bind(derive_pkt_iv(aead, secret, Zeros(nonce_len(aead))), LAMBDA v :
         IF ~IsOk(v) THEN CryptoFail
         ELSE PacketKey_new(aead, k.val, v.val)))

\* make_nonce XORing in only the low 32 bits of the counter.
make_nonce_u32(iv, counter) ==
    IF Len(iv) # 12 THEN Panic("copy_from_slice")
    ELSE Ok([i \in 1 .. 12 |->
                IF i <= 8 THEN iv[i]
                ELSE BitXor(iv[i], to_be_bytes(counter)[i - 4])])

\* make_nonce with the counter's bytes taken least significant first.
make_nonce_le(iv, counter) ==
    IF Len(iv) # 12 THEN Panic("copy_from_slice")
    ELSE Ok([i \in 1 .. 12 |->
                IF i <= 4 THEN iv[i]
                ELSE BitXor(iv[i], to_be_bytes(counter)[13 - i])])

\* make_nonce: copy_from_slice panics unless the IV has exactly 12 bytes.
make_nonce(iv, counter) ==
    IF Len(iv) # 12 THEN Panic("copy_from_slice")
    ELSE Ok([i \in 1 .. 12 |->
                IF i <= 4 THEN iv[i]
                ELSE BitXor(iv[i], to_be_bytes(counter)[i - 4])])

(***************************************************************************)
(* Open and Seal.  A facade is [alg, secret, header, packet].              *)
(***************************************************************************)
Facade(alg, secret, header, packet) ==
    [alg |-> alg, secret |-> secret, header |-> header, packet |-> packet]

Open_new(alg, key, iv, hp_key, secret) ==
    LET h == HeaderProtectionKey_new(alg, hp_key) IN
    IF ~IsOk(h) THEN CryptoFail
    ELSE LET p == PacketKey_new(alg, key, iv) IN
         IF ~IsOk(p) THEN CryptoFail
         ELSE Ok(Facade(alg, secret, h.val, p.val))

Open_from_secret(aead, secret) ==
    Bind(HeaderProtectionKey_from_secret(aead, secret), LAMBDA h :
    IF ~IsOk(h) THEN CryptoFail
    ELSE Bind(PacketKey_from_secret(aead, secret), LAMBDA p :
         IF ~IsOk(p) THEN CryptoFail
         ELSE Ok(Facade(aead, secret, h.val, p.val))))

\* Open::open_with_u64_counter building its nonce without the counter.
open_with_u64_counter_no_counter(self, counter, ad, b) ==
    IF fuzzing THEN [r |-> Ok(Len(b)), buf |-> b]
    ELSE IF tag_len(self.alg) > Len(b) THEN [r |-> CryptoFail, buf |-> b]
    ELSE LET nonce == make_nonce(self.packet.nonce, << 0, 0, 0, 0 >>) IN
         IF ~IsOk(nonce) THEN [r |-> nonce, buf |-> b]
         ELSE Bind(open(self.packet.ctx, b, nonce.val, ad), LAMBDA o :
                  [r |-> o.r, buf |-> o.in_out])

\* Open::open_with_u64_counter: the result and buf after the call.
open_with_u64_counter(self, counter, ad, b) ==
    IF fuzzing THEN [r |-> Ok(Len(b)), buf |-> b]
    ELSE IF tag_len(self.alg) > Len(b) THEN [r |-> CryptoFail, buf |-> b]
    ELSE LET nonce == make_nonce(self.packet.nonce, counter) IN
         IF ~IsOk(nonce) THEN [r |-> nonce, buf |-> b]
         ELSE Bind(open(self.packet.ctx, b, nonce.val, ad), LAMBDA o :
                  [r |-> o.r, buf |-> o.in_out])

Open_new_mask(self, sample) ==
    IF fuzzing THEN Ok(Zeros(5))
    ELSE HeaderProtectionKey_new_mask(self.header, sample)

\* Open::derive_next_packet_key deriving a fresh header-protection key from
\* the next secret instead of keeping the current one.
Open_derive_next_packet_key_new_hp(self) ==
    Bind(derive_next_secret(self.alg, self.secret), LAMBDA next_secret :
    IF ~IsOk(next_secret) THEN CryptoFail
    ELSE Bind(PacketKey_from_secret(self.alg, next_secret.val), LAMBDA next_packet_key :
         IF ~IsOk(next_packet_key) THEN CryptoFail
         ELSE Bind(HeaderProtectionKey_from_secret(self.alg, next_secret.val), LAMBDA h :
              IF ~IsOk(h) THEN CryptoFail
              ELSE Ok(Facade(self.alg, next_secret.val, h.val, next_packet_key.val)))))

Open_derive_next_packet_key(self) ==
    Bind(derive_next_secret(self.alg, self.secret), LAMBDA next_secret :
    IF ~IsOk(next_secret) THEN CryptoFail
    ELSE Bind(PacketKey_from_secret(self.alg, next_secret.val), LAMBDA next_packet_key :
         IF ~IsOk(next_packet_key) THEN CryptoFail
         ELSE LET h == HeaderProtectionKey_new(self.alg, self.header.hp_key) IN
              IF ~IsOk(h) THEN CryptoFail
              ELSE Ok(Facade(self.alg, next_secret.val, h.val, next_packet_key.val))))

Seal_new(alg, key, iv, hp_key, secret) ==
    LET h == HeaderProtectionKey_new(alg, hp_key) IN
    IF ~IsOk(h) THEN CryptoFail
    ELSE LET p == PacketKey_new(alg, key, iv) IN
         IF ~IsOk(p) THEN CryptoFail
         ELSE Ok(Facade(alg, secret, h.val, p.val))

Seal_from_secret(aead, secret) ==
    Bind(HeaderProtectionKey_from_secret(aead, secret), LAMBDA h :
    IF ~IsOk(h) THEN CryptoFail
    ELSE Bind(PacketKey_from_secret(aead, secret), LAMBDA p :
         IF ~IsOk(p) THEN CryptoFail
         ELSE Ok(Facade(aead, secret, h.val, p.val))))

\* The fuzzing build's body of seal_with_u64_counter.
seal_fuzzing(b, in_len, extra_in, overflow_checks) ==
    IF ~extra_in.some THEN [r |-> Ok(in_len), buf |-> b]
    ELSE LET hi == usize_add(in_len, usize_from(Len(extra_in.val))) IN
         IF hi.overflow /\ overflow_checks
         THEN [r |-> Panic("overflow"), buf |-> b]
         ELSE IF usize_gt(in_len, hi.val) \/ usize_gt(hi.val, usize_from(Len(b)))
         THEN [r |-> Panic("slice index"), buf |-> b]
         ELSE LET n == usize_small(in_len) IN
              [r |-> Ok(hi.val),
               buf |-> SubSeq(b, 1, n) \o extra_in.val
                          \o SubSeq(b, n + Len(extra_in.val) + 1, Len(b))]

\* Seal::seal_with_u64_counter: the result and buf after the call.  in_len
\* is a usize; overflow_checks says whether the build traps on overflow
\* (debug profile) or wraps (release profile).
seal_with_u64_counter(self, counter, ad, b, in_len, extra_in, overflow_checks) ==
    IF fuzzing THEN seal_fuzzing(b, in_len, extra_in, overflow_checks)
    ELSE
    LET tlen == tag_len(self.alg)
        extra_in_len == Len(OptBytes(extra_in))
        s1 == usize_add(in_len, usize_from(tlen))
        s2 == usize_add(s1.val, usize_from(extra_in_len))
    IN  IF (s1.overflow \/ s2.overflow) /\ overflow_checks
        THEN [r |-> Panic("overflow"), buf |-> b]
        ELSE IF usize_gt(s2.val, usize_from(Len(b)))
        THEN [r |-> CryptoFail, buf |-> b]
        ELSE LET nonce == make_nonce(self.packet.nonce, counter) IN
             IF ~IsOk(nonce) THEN [r |-> nonce, buf |-> b]
             ELSE IF usize_gt(in_len, usize_from(Len(b)))
             THEN [r |-> Panic("split_at_mut"), buf |-> b]
             ELSE Bind(seal_scatter(self.packet.ctx,
                                        SubSeq(b, 1, usize_small(in_len)),
                                        SubSeq(b, usize_small(in_len) + 1, Len(b)),
                                        nonce.val, extra_in, ad), LAMBDA s :
                      [r |-> IF IsOk(s.r)
                             THEN Ok(usize_add(in_len, usize_from(s.r.val)).val)
                             ELSE CryptoFail,
                       buf |-> s.in_out \o s.out_tag])

Seal_new_mask(self, sample) ==
    IF fuzzing THEN Ok(Zeros(5))
    ELSE HeaderProtectionKey_new_mask(self.header, sample)

\* Seal::derive_next_packet_key keying the packet key from the current
\* secret instead of the next one.
Seal_derive_next_packet_key_stale(self) ==
    Bind(derive_next_secret(self.alg, self.secret), LAMBDA next_secret :
    IF ~IsOk(next_secret) THEN CryptoFail
    ELSE Bind(PacketKey_from_secret(self.alg, self.secret), LAMBDA next_packet_key :
         IF ~IsOk(next_packet_key) THEN CryptoFail
         ELSE LET h == HeaderProtectionKey_new(self.alg, self.header.hp_key) IN
              IF ~IsOk(h) THEN CryptoFail
              ELSE Ok(Facade(self.alg, next_secret.val, h.val, next_packet_key.val))))

Seal_derive_next_packet_key(self) ==
    Bind(derive_next_secret(self.alg, self.secret), LAMBDA next_secret :
    IF ~IsOk(next_secret) THEN CryptoFail
    ELSE Bind(PacketKey_from_secret(self.alg, next_secret.val), LAMBDA next_packet_key :
         IF ~IsOk(next_packet_key) THEN CryptoFail
         ELSE LET h == HeaderProtectionKey_new(self.alg, self.header.hp_key) IN
              IF ~IsOk(h) THEN CryptoFail
              ELSE Ok(Facade(self.alg, next_secret.val, h.val, next_packet_key.val))))

\* derive_initial_key_material handing each endpoint an Open keyed with
\* its own direction and a Seal keyed with the peer's.
initial_facades_swapped(aead, client, server, is_server) ==
    LET o == IF is_server
             THEN Open_new(aead, server.key, server.iv, server.hp_key, server.secret)
             ELSE Open_new(aead, client.key, client.iv, client.hp_key, client.secret)
        s == IF is_server
             THEN Seal_new(aead, client.key, client.iv, client.hp_key, client.secret)
             ELSE Seal_new(aead, server.key, server.iv, server.hp_key, server.secret)
    IN  IF IsOk(o) /\ IsOk(s) THEN Ok(<< o.val, s.val >>) ELSE CryptoFail

\* derive_initial_key_material, last part: the Open reads the peer's
\* direction and the Seal writes the endpoint's own.
initial_facades(aead, client, server, is_server) ==
    LET o == IF is_server
             THEN Open_new(aead, client.key, client.iv, client.hp_key, client.secret)
             ELSE Open_new(aead, server.key, server.iv, server.hp_key, server.secret)
        s == IF is_server
             THEN Seal_new(aead, server.key, server.iv, server.hp_key, server.secret)
             ELSE Seal_new(aead, client.key, client.iv, client.hp_key, client.secret)
    IN  IF IsOk(o) /\ IsOk(s) THEN Ok(<< o.val, s.val >>) ELSE CryptoFail

\* derive_initial_key_material, middle part: key, IV and header-protection
\* key of both directions.
initial_keys(aead, client_secret, server_secret, is_server) ==
    Bind(derive_pkt_key(aead, client_secret, Zeros(key_len(aead))), LAMBDA client_key :
    Bind(derive_pkt_iv(aead, client_secret, Zeros(nonce_len(aead))), LAMBDA client_iv :
    Bind(derive_hdr_key(aead, client_secret, Zeros(key_len(aead))), LAMBDA client_hp_key :
    Bind(derive_pkt_key(aead, server_secret, Zeros(key_len(aead))), LAMBDA server_key :
    Bind(derive_pkt_iv(aead, server_secret, Zeros(nonce_len(aead))), LAMBDA server_iv :
    Bind(derive_hdr_key(aead, server_secret, Zeros(key_len(aead))), LAMBDA server_hp_key :
    IF ~IsOk(client_key) \/ ~IsOk(client_iv) \/ ~IsOk(client_hp_key)
       \/ ~IsOk(server_key) \/ ~IsOk(server_iv) \/ ~IsOk(server_hp_key)
    THEN CryptoFail
    ELSE initial_facades(aead,
             [key |-> client_key.val, iv |-> client_iv.val,
              hp_key |-> client_hp_key.val, secret |-> client_secret],
             [key |-> server_key.val, iv |-> server_iv.val,
              hp_key |-> server_hp_key.val, secret |-> server_secret],
             is_server)))))))

\* derive_initial_key_material, after the initial secret: the two
\* directions' secrets.
initial_secrets(aead, initial_secret, is_server) ==
    Bind(derive_client_initial_secret(initial_secret, Zeros(32)), LAMBDA client_secret :
    Bind(derive_server_initial_secret(initial_secret, Zeros(32)), LAMBDA server_secret :
        IF ~IsOk(client_secret) \/ ~IsOk(server_secret) THEN CryptoFail
        ELSE initial_keys(aead, client_secret.val, server_secret.val, is_server)))

\* derive_initial_key_material: Ok(<<open, seal>>) or CryptoFail.
derive_initial_key_material(cid, version, is_server) ==
    Bind(derive_initial_secret(cid, version), LAMBDA initial_secret :
        IF ~IsOk(initial_secret) THEN CryptoFail
        ELSE initial_secrets("AES128_GCM", initial_secret.val, is_server))

(***************************************************************************)
(* Bounds and the inputs the operations are driven with.                   *)
(***************************************************************************)
MaxUpdates == 2

MaxPlainLen == 2

MaxExtraLen == 1

Pat(n, seed) == [i \in 1 .. n |-> (seed + 37 * i) % 256]

Counters == { << 0, 0, 0, 0 >>, << 0, 4660, 22136, 39612 >> }

Ads == { <<>>, << 104, 100, 114 >> }

\* The packets sealed: counter, associated data, plaintext, extra_in and
\* the bytes of the caller's buffer after the plaintext that fit them (one
\* short of the tag is tried with each).
SealCases ==
    { [counter |-> << 0, 0, 0, 0 >>, ad |-> <<>>, m |-> <<>>, extra_in |-> None,
       room |-> 16],
      [counter |-> << 0, 4660, 22136, 39612 >>, ad |-> << 104, 100, 114 >>,
       m |-> Pat(MaxPlainLen, 104), extra_in |-> None, room |-> 17],
      [counter |-> << 0, 4660, 22136, 39612 >>, ad |-> << 104, 100, 114 >>,
       m |-> Pat(MaxPlainLen, 104), extra_in |-> Some(Pat(MaxExtraLen, 201)),
       room |-> 16 + MaxExtraLen],
      [counter |-> << 0, 0, 0, 0 >>, ad |-> << 104, 100, 114 >>,
       m |-> Pat(MaxPlainLen, 104), extra_in |-> Some(Pat(MaxExtraLen, 201)),
       room |-> 16 + MaxExtraLen + 1] }

\* Bytes of the caller's buffer after the plaintext.
Rooms(c) == { 15, c.room }

Fill(n) == [i \in 1 .. n |-> 170]

\* in_len values a caller can pass besides the plaintext's own length.
WildInLens(b) ==
    { usize_from(Len(b) + 1), USIZE_MAX,
      << 65535, 65535, 65535, 65520 >>, << 65535, 65535, 65535, 65519 >> }

FlipBit(s, p, k) ==
    [i \in 1 .. Len(s) |-> IF i = p THEN BitXor(s[i], 2 ^ k) ELSE s[i]]

(***************************************************************************)
(* State.  opens and seals are the chains of facades alive: the first was  *)
(* built by a constructor, each later one by derive_next_packet_key from   *)
(* the one before it.  buf is the buffer of the last call, after the call; *)
(* res is that call and its result; sealed remembers the last packet       *)
(* sealed successfully (its inputs and its bytes on the wire); args holds  *)
(* the inputs of a pure function under test.                               *)
(***************************************************************************)
NoPacket == [valid |-> FALSE]

Start == [op |-> "start", call |-> <<>>, r |-> Ok(0)]

Running == res.r.status # "Panic"

RECURSIVE OpenChain(_, _)
OpenChain(chain, n) ==
    IF n = 0 THEN chain
    ELSE Bind(Open_derive_next_packet_key(chain[Len(chain)]), LAMBDA r :
             IF IsOk(r) THEN OpenChain(Append(chain, r.val), n - 1) ELSE chain)

RECURSIVE SealChain(_, _)
SealChain(chain, n) ==
    IF n = 0 THEN chain
    ELSE Bind(Seal_derive_next_packet_key(chain[Len(chain)]), LAMBDA r :
             IF IsOk(r) THEN SealChain(Append(chain, r.val), n - 1) ELSE chain)

(***************************************************************************)
(* SpecAead: one packet at a time through seal_with_u64_counter and        *)
(* open_with_u64_counter, on facades built by the constructors and updated *)
(* MaxUpdates times; packets are sealed and opened on the first and on the *)
(* newest facade of each side.                                             *)
(***************************************************************************)
\* Pairs of facades two endpoints can hold after construction.
\* args keeps how the pair was built.
AeadPairs ==
    { [ctor |-> "from_secret", alg |-> a, open_secret |-> Pat(32, 1),
       seal_secret |-> Pat(32, 1)] : a \in Algorithm }
    \cup { [ctor |-> "from_secret", alg |-> "AES128_GCM", open_secret |-> Pat(32, 1),
            seal_secret |-> Pat(32, 90)] }
    \cup { [ctor |-> "new", alg |-> "AES128_GCM", key |-> Pat(16, 3), iv |-> Pat(n, 5),
            hp_key |-> Pat(16, 7), secret |-> Pat(32, 1)] : n \in { 11, 12 } }

PairOpen(p) ==
    IF p.ctor = "from_secret" THEN Open_from_secret(p.alg, p.open_secret).val
    ELSE Open_new(p.alg, p.key, p.iv, p.hp_key, p.secret).val

PairSeal(p) ==
    IF p.ctor = "from_secret" THEN Seal_from_secret(p.alg, p.seal_secret).val
    ELSE Seal_new(p.alg, p.key, p.iv, p.hp_key, p.secret).val

InitAead ==
    /\ \E p \in AeadPairs :
          /\ opens = OpenChain(<< PairOpen(p) >>, MaxUpdates)
          /\ seals = SealChain(<< PairSeal(p) >>, MaxUpdates)
          /\ args = p
    /\ buf = <<>>
    /\ sealed = NoPacket
    /\ res = Start

SealWithCounter(i, counter, ad, m, room, extra_in, in_len, overflow_checks) ==
    /\ res.op = "start"
    /\ LET b == m \o Fill(room) IN
       Bind(seal_with_u64_counter(seals[i], counter, ad, b, in_len,
                                      extra_in, overflow_checks), LAMBDA s :
           /\ buf' = s.buf
           /\ res' = [op |-> "seal",
                      call |-> [idx |-> i, counter |-> counter, ad |-> ad, buf |-> b,
                                in_len |-> in_len, extra_in |-> extra_in],
                      r |-> s.r]
           /\ sealed' = IF IsOk(s.r)
                        THEN [valid |-> TRUE, idx |-> i, counter |-> counter,
                              ad |-> ad, m |-> SubSeq(b, 1, usize_small(in_len)),
                              extra |-> OptBytes(extra_in),
                              pkt |-> SubSeq(s.buf, 1, usize_small(s.r.val))]
                        ELSE NoPacket)
    /\ UNCHANGED << opens, seals, args >>

SameMaterial(o, s) ==
    /\ o.alg = s.alg
    /\ o.packet.ctx.key = s.packet.ctx.key
    /\ o.packet.nonce = s.packet.nonce

\* What the receiver can hand to open_with_u64_counter(i, counter, ..): the
\* packet as sealed or truncated, on any facade and counter; the packet or
\* its associated data with one bit flipped, on the facade and counter that
\* match the sealing; or, with no packet at hand, bytes of its own.
OpenInputs(i, counter) ==
    IF res.op = "seal" /\ sealed.valid
    THEN LET n == Len(sealed.pkt)
             t == tag_len(seals[sealed.idx].alg)
         IN  { [tamper |-> "none", buf |-> sealed.pkt, ad |-> sealed.ad] }
             \cup { [tamper |-> "cut", buf |-> SubSeq(sealed.pkt, 1, c),
                     ad |-> sealed.ad] : c \in { 0, 15, n - 1 } }
             \cup IF counter = sealed.counter /\ SameMaterial(opens[i], seals[sealed.idx])
                  THEN { [tamper |-> IF p <= n - t THEN "ct" ELSE "tag",
                          buf |-> FlipBit(sealed.pkt, p, k), ad |-> sealed.ad] :
                         p \in 1 .. n, k \in 0 .. 7 }
                       \cup { [tamper |-> "ad", buf |-> sealed.pkt,
                               ad |-> FlipBit(sealed.ad, p, k)] :
                              p \in 1 .. Len(sealed.ad), k \in 0 .. 7 }
                  ELSE {}
    ELSE IF res.op = "start"
    THEN { [tamper |-> "raw", buf |-> Pat(c, 50), ad |-> <<>>] :
           c \in { 0, 15, 16, 17 } }
    ELSE {}

OpenWithCounter(i, counter, inp) ==
    /\ Running
    /\ Bind(open_with_u64_counter(opens[i], counter, inp.ad, inp.buf), LAMBDA o :
           /\ buf' = o.buf
           /\ res' = [op |-> "open",
                      call |-> [idx |-> i, counter |-> counter,
                                len |-> Len(inp.buf), tamper |-> inp.tamper],
                      r |-> o.r])
    /\ UNCHANGED << opens, seals, sealed, args >>

\* The caller is done with the buffer or the mask of the last call.
ReleaseBuf ==
    /\ Running
    /\ res.op \in { "seal", "open", "open_new_mask", "seal_new_mask" }
    /\ buf' = <<>>
    /\ sealed' = NoPacket
    /\ res' = Start
    /\ UNCHANGED << opens, seals, args >>

NextAead ==
    \/ \E i \in { 1, Len(seals) }, c \in SealCases, oc \in BOOLEAN :
          \E room \in Rooms(c) :
             \E in_len \in { usize_from(Len(c.m)) } \cup WildInLens(c.m \o Fill(room)) :
                SealWithCounter(i, c.counter, c.ad, c.m, room, c.extra_in, in_len, oc)
    \/ \E i \in { 1, Len(opens) }, counter \in Counters :
          \E inp \in OpenInputs(i, counter) : OpenWithCounter(i, counter, inp)
    \/ ReleaseBuf

SpecAead == InitAead /\ [][NextAead]_vars

(***************************************************************************)
(* Spec: the life of the keys.  A run makes one constructor call, which    *)
(* builds an Open, a Seal or (derive_initial_key_material) both; what it   *)
(* built is then updated up to MaxUpdates times, and masks are asked of    *)
(* any facade.                                                             *)
(***************************************************************************)
KeyInputs == { Pat(n, 3) : n \in { 16, 32 } }

IvInputs == { Pat(n, 5) : n \in { 11, 12 } }

HpInputs == { Pat(n, 7) : n \in { 16, 32 } }

SecretInputs == { Pat(32, 1), Pat(3, 9) }

Cids == { Pat(8, 131) }

Versions == { PROTOCOL_VERSION_V1, 2 }

Samples == { Pat(n, 11) : n \in { 15, 16, 17 } }

Init ==
    /\ opens = <<>>
    /\ seals = <<>>
    /\ buf = <<>>
    /\ sealed = NoPacket
    /\ res = Start
    /\ args = <<>>

Idle == res.op \notin { "open_new_mask", "seal_new_mask" }

\* No constructor has been called yet.
Unbuilt == opens = <<>> /\ seals = <<>> /\ res.op = "start"

NewCall(alg, key, iv, hp_key, secret) ==
    [alg |-> alg, key_len |-> Len(key), iv_len |-> Len(iv),
     hp_len |-> Len(hp_key), secret |-> secret]

OpenNew(alg, key, iv, hp_key, secret) ==
    /\ Unbuilt
    /\ Bind(Open_new(alg, key, iv, hp_key, secret), LAMBDA r :
           /\ opens' = IF IsOk(r) THEN << r.val >> ELSE opens
           /\ res' = [op |-> "open_new", call |-> NewCall(alg, key, iv, hp_key, secret),
                      r |-> r])
    /\ UNCHANGED << seals, buf, sealed, args >>

SealNew(alg, key, iv, hp_key, secret) ==
    /\ Unbuilt
    /\ Bind(Seal_new(alg, key, iv, hp_key, secret), LAMBDA r :
           /\ seals' = IF IsOk(r) THEN << r.val >> ELSE seals
           /\ res' = [op |-> "seal_new", call |-> NewCall(alg, key, iv, hp_key, secret),
                      r |-> r])
    /\ UNCHANGED << opens, buf, sealed, args >>

OpenFromSecret(aead, secret) ==
    /\ Unbuilt
    /\ Bind(Open_from_secret(aead, secret), LAMBDA r :
           /\ opens' = IF IsOk(r) THEN << r.val >> ELSE opens
           /\ res' = [op |-> "open_from_secret",
                      call |-> [alg |-> aead, secret |-> secret], r |-> r])
    /\ UNCHANGED << seals, buf, sealed, args >>

SealFromSecret(aead, secret) ==
    /\ Unbuilt
    /\ Bind(Seal_from_secret(aead, secret), LAMBDA r :
           /\ seals' = IF IsOk(r) THEN << r.val >> ELSE seals
           /\ res' = [op |-> "seal_from_secret",
                      call |-> [alg |-> aead, secret |-> secret], r |-> r])
    /\ UNCHANGED << opens, buf, sealed, args >>

DeriveInitialKeyMaterial(cid, version, is_server) ==
    /\ Unbuilt
    /\ Bind(derive_initial_key_material(cid, version, is_server), LAMBDA r :
           /\ opens' = IF IsOk(r) THEN << r.val[1] >> ELSE opens
           /\ seals' = IF IsOk(r) THEN << r.val[2] >> ELSE seals
           /\ res' = [op |-> "derive_initial_key_material",
                      call |-> [cid |-> cid, version |-> version,
                                is_server |-> is_server],
                      r |-> r])
    /\ UNCHANGED << buf, sealed, args >>

OpenDeriveNextPacketKey ==
    /\ Idle
    /\ opens # <<>>
    /\ Len(opens) <= MaxUpdates
    /\ Bind(Open_derive_next_packet_key(opens[Len(opens)]), LAMBDA r :
           /\ opens' = IF IsOk(r) THEN Append(opens, r.val) ELSE opens
           /\ res' = [op |-> "open_derive_next_packet_key",
                      call |-> [idx |-> Len(opens)], r |-> r])
    /\ UNCHANGED << seals, buf, sealed, args >>

SealDeriveNextPacketKey ==
    /\ Idle
    /\ seals # <<>>
    /\ Len(seals) <= MaxUpdates
    /\ Bind(Seal_derive_next_packet_key(seals[Len(seals)]), LAMBDA r :
           /\ seals' = IF IsOk(r) THEN Append(seals, r.val) ELSE seals
           /\ res' = [op |-> "seal_derive_next_packet_key",
                      call |-> [idx |-> Len(seals)], r |-> r])
    /\ UNCHANGED << opens, buf, sealed, args >>

OpenNewMask(i, sample) ==
    /\ Idle
    /\ res' = [op |-> "open_new_mask", call |-> [idx |-> i, sample |-> sample],
               r |-> Open_new_mask(opens[i], sample)]
    /\ UNCHANGED << opens, seals, buf, sealed, args >>

SealNewMask(i, sample) ==
    /\ Idle
    /\ res' = [op |-> "seal_new_mask", call |-> [idx |-> i, sample |-> sample],
               r |-> Seal_new_mask(seals[i], sample)]
    /\ UNCHANGED << opens, seals, buf, sealed, args >>

Next ==
    \/ \E alg \in Algorithm, key \in KeyInputs, iv \in IvInputs, hp_key \in HpInputs :
          OpenNew(alg, key, iv, hp_key, Pat(32, 1))
    \/ \E alg \in Algorithm, key \in KeyInputs, iv \in IvInputs, hp_key \in HpInputs :
          SealNew(alg, key, iv, hp_key, Pat(32, 1))
    \/ \E aead \in Algorithm, secret \in SecretInputs : OpenFromSecret(aead, secret)
    \/ \E aead \in Algorithm, secret \in SecretInputs : SealFromSecret(aead, secret)
    \/ \E cid \in Cids, version \in Versions, is_server \in BOOLEAN :
          DeriveInitialKeyMaterial(cid, version, is_server)
    \/ OpenDeriveNextPacketKey
    \/ SealDeriveNextPacketKey
    \/ \E i \in 1 .. Len(opens), sample \in Samples : OpenNewMask(i, sample)
    \/ \E i \in 1 .. Len(seals), sample \in Samples : SealNewMask(i, sample)

Spec == Init /\ [][Next]_vars

(***************************************************************************)
(* SpecNonce: make_nonce on its own, over IVs and 64-bit counters.         *)
(***************************************************************************)
NonceIvs == { Pat(12, 5), Pat(12, 77), Zeros(12), [i \in 1 .. 12 |-> 255],
              Pat(11, 5), Pat(13, 5) }

NonceCounters ==
    { << 0, 0, 0, 0 >>, << 0, 0, 0, 1 >>, << 0, 0, 0, 255 >>, << 0, 0, 0, 256 >>,
      << 0, 0, 1, 0 >>, << 0, 1, 0, 0 >>, << 1, 0, 0, 0 >>, << 32768, 0, 0, 0 >>,
      << 4660, 22136, 39612, 57072 >>, << 65535, 65535, 65535, 65535 >> }

InitNonce ==
    /\ opens = <<>>
    /\ seals = <<>>
    /\ buf = <<>>
    /\ sealed = NoPacket
    /\ res = Start
    /\ args \in [iv : NonceIvs, counter : NonceCounters]

MakeNonce ==
    /\ res.op = "start"
    /\ res' = [op |-> "make_nonce", call |-> args,
               r |-> make_nonce(args.iv, args.counter)]
    /\ UNCHANGED << opens, seals, buf, sealed, args >>

NextNonce == MakeNonce

SpecNonce == InitNonce /\ [][NextNonce]_vars

(***************************************************************************)
(* SpecInitial: the two endpoints of a connection each call                *)
(* derive_initial_key_material, then Initial packets sealed by one are     *)
(* opened by either.  args keeps the arguments of the two calls, opens[i]  *)
(* and seals[i] are what call i returned.                                  *)
(***************************************************************************)
\* The calls an endpoint can make: the server and a client of one
\* connection id, under two versions, and a client of another.
InitialCalls ==
    { [cid |-> Pat(8, 131), version |-> PROTOCOL_VERSION_V1, is_server |-> TRUE],
      [cid |-> Pat(8, 131), version |-> 2, is_server |-> FALSE],
      [cid |-> Pat(20, 17), version |-> PROTOCOL_VERSION_V1, is_server |-> FALSE] }

InitInitial ==
    /\ opens = <<>>
    /\ seals = <<>>
    /\ buf = <<>>
    /\ sealed = NoPacket
    /\ res = Start
    /\ args = <<>>

EndpointDeriveInitial(cid, version, is_server) ==
    /\ Len(args) < 2
    /\ Bind(derive_initial_key_material(cid, version, is_server), LAMBDA r :
           /\ opens' = IF IsOk(r) THEN Append(opens, r.val[1]) ELSE opens
           /\ seals' = IF IsOk(r) THEN Append(seals, r.val[2]) ELSE seals
           /\ args' = IF IsOk(r)
                      THEN Append(args, [cid |-> cid, version |-> version,
                                         is_server |-> is_server])
                      ELSE args
           /\ res' = [op |-> "derive_initial_key_material",
                      call |-> [cid |-> cid, version |-> version,
                                is_server |-> is_server],
                      r |-> r])
    /\ UNCHANGED << buf, sealed >>

\* Endpoint i seals an Initial packet of plaintext m, with room for the tag.
SealInitial(i, counter, ad, m) ==
    /\ Len(args) = 2
    /\ res.op \in { "derive_initial_key_material", "start" }
    /\ LET b == m \o Fill(tag_len(seals[i].alg)) IN
       Bind(seal_with_u64_counter(seals[i], counter, ad, b, usize_from(Len(m)),
                                      None, TRUE), LAMBDA s :
           /\ buf' = s.buf
           /\ res' = [op |-> "seal",
                      call |-> [idx |-> i, counter |-> counter, ad |-> ad, buf |-> b,
                                in_len |-> usize_from(Len(m)), extra_in |-> None],
                      r |-> s.r]
           /\ sealed' = IF IsOk(s.r)
                        THEN [valid |-> TRUE, idx |-> i, counter |-> counter,
                              ad |-> ad, m |-> m, extra |-> <<>>,
                              pkt |-> SubSeq(s.buf, 1, usize_small(s.r.val))]
                        ELSE NoPacket)
    /\ UNCHANGED << opens, seals, args >>

\* Endpoint j opens the packet on the wire.
OpenInitial(j, counter) ==
    /\ res.op = "seal"
    /\ sealed.valid
    /\ OpenWithCounter(j, counter,
                       [tamper |-> "none", buf |-> sealed.pkt, ad |-> sealed.ad])

NextInitial ==
    \/ \E c \in InitialCalls : EndpointDeriveInitial(c.cid, c.version, c.is_server)
    \/ \E i \in 1 .. Len(seals), counter \in Counters, ad \in Ads :
          SealInitial(i, counter, ad, Pat(MaxPlainLen, 104))
    \/ \E j \in 1 .. Len(opens), counter \in Counters : OpenInitial(j, counter)
    \/ ReleaseBuf

SpecInitial == InitInitial /\ [][NextInitial]_vars

(***************************************************************************)
(* SpecDerive: derive_hdr_key, derive_pkt_key and derive_pkt_iv on their   *)
(* own, over algorithms, secrets and output buffers of many lengths.  buf  *)
(* is the output buffer after the call.                                    *)
(***************************************************************************)
\* Output buffers around every required length, pre-filled with 0xAA.
DeriveOuts == { Fill(n) : n \in { 0, 11, 12, 13, 16, 17, 32, 33 } }

InitDerive ==
    /\ opens = <<>>
    /\ seals = <<>>
    /\ buf = <<>>
    /\ sealed = NoPacket
    /\ res = Start
    /\ args \in [aead : Algorithm, secret : SecretInputs, out : DeriveOuts]

DeriveCall(name, r) ==
    /\ res.op = "start"
    /\ res' = [op |-> name, call |-> args, r |-> IF IsOk(r) THEN Ok(0) ELSE r]
    /\ buf' = IF IsOk(r) THEN r.val ELSE args.out
    /\ UNCHANGED << opens, seals, sealed, args >>

DeriveHdrKey == DeriveCall("derive_hdr_key", derive_hdr_key(args.aead, args.secret, args.out))

DerivePktKey == DeriveCall("derive_pkt_key", derive_pkt_key(args.aead, args.secret, args.out))

DerivePktIv == DeriveCall("derive_pkt_iv", derive_pkt_iv(args.aead, args.secret, args.out))

NextDerive == DeriveHdrKey \/ DerivePktKey \/ DerivePktIv

SpecDerive == InitDerive /\ [][NextDerive]_vars

(***************************************************************************)
(* SpecMask: new_mask asked of an Open, a Seal and a HeaderProtectionKey   *)
(* built from one secret, over samples of many lengths.                    *)
(***************************************************************************)
MaskSamples ==
    { Pat(n, 11) : n \in { 0, 4, 15, 16, 17, 32 } } \cup { Pat(16, 200), Zeros(16) }

\* The facades o and s and the key h, with each of the samples.
InitMaskOn(o, s, h) ==
    /\ opens = << o >>
    /\ seals = << s >>
    /\ \E sample \in MaskSamples : args = [header |-> h, sample |-> sample]

InitMask ==
    /\ \E aead \in Algorithm, secret \in { Pat(32, 1), Pat(48, 63) } :
          InitMaskOn(Open_from_secret(aead, secret).val,
                     Seal_from_secret(aead, secret).val,
                     HeaderProtectionKey_from_secret(aead, secret).val)
    /\ buf = <<>>
    /\ sealed = NoPacket
    /\ res = Start

HeaderNewMask ==
    /\ Idle
    /\ res' = [op |-> "header_new_mask", call |-> [idx |-> 0, sample |-> args.sample],
               r |-> HeaderProtectionKey_new_mask(args.header, args.sample)]
    /\ UNCHANGED << opens, seals, buf, sealed, args >>

NextMask ==
    \/ OpenNewMask(1, args.sample)
    \/ SealNewMask(1, args.sample)
    \/ HeaderNewMask
    \/ ReleaseBuf

SpecMask == InitMask /\ [][NextMask]_vars

(***************************************************************************)
(* SpecLabel: hkdf_expand_label as its callers call it, and Prk::expand    *)
(* called directly.  res.call keeps the info string the call hands to      *)
(* Prk::expand.                                                            *)
(***************************************************************************)
\* The lengths of the secret derive_next_secret is given, which is also
\* the output length it asks for: none, less than a block of the hash, a
\* secret of the hash's length, more than 255 bytes, one over the 255
\* blocks of HKDF-Expand, and one whose u16 cast wraps.
KuLens(alg) == { 0, 16, prk_len(alg), 300, 255 * prk_len(alg) + 1, 65552 }

\* The calls of hkdf_expand_label: each call site's label with the
\* algorithm and the output length the call site passes.
LabelCalls ==
    { [alg |-> "AES128_GCM", label |-> l, out_len |-> 32] :
         l \in { LABEL_CLIENT_IN, LABEL_SERVER_IN } }
    \cup UNION { { [alg |-> a, label |-> LABEL_KU, out_len |-> n] : n \in KuLens(a) } :
                   a \in Algorithm }
    \cup { [alg |-> a, label |-> l, out_len |-> key_len(a)] :
             a \in Algorithm, l \in { LABEL_HP, LABEL_KEY } }
    \cup { [alg |-> a, label |-> LABEL_IV, out_len |-> nonce_len(a)] : a \in Algorithm }

InitLabel ==
    /\ opens = <<>>
    /\ seals = <<>>
    /\ buf = <<>>
    /\ sealed = NoPacket
    /\ res = Start
    /\ args \in LabelCalls

HkdfExpandLabel ==
    /\ res.op = "start"
    /\ LET prk == Prk_new_less_safe(args.alg, Pat(prk_len(args.alg), 1))
           out == Zeros(args.out_len)
       IN
       Bind(hkdf_expand_label(prk, args.label, out), LAMBDA r :
           /\ res' = [op |-> "hkdf_expand_label",
                      call |-> [info |-> Flatten(HkdfLabelInfo(args.label, Len(out)))],
                      r |-> IF IsOk(r) THEN Ok(0) ELSE r]
           /\ buf' = IF IsOk(r) THEN r.val ELSE out)
    /\ UNCHANGED << opens, seals, sealed, args >>

\* Prk::expand called directly, with len equal to, below and above
\* out.len(); the label is the only info fragment.
ExpandLens(out_len) == { 0, out_len, out_len + 4 }

PrkExpand ==
    /\ res.op = "start"
    /\ \E len \in ExpandLens(args.out_len) :
          LET prk == Prk_new_less_safe(args.alg, Pat(prk_len(args.alg), 1))
              out == Fill(args.out_len)
          IN  \E o \in Outcomes(Prk_expand(prk, << args.label >>, len, out)) :
                 /\ res' = [op |-> "Prk_expand",
                            call |-> [len |-> len],
                            r |-> IF IsOk(o) THEN [o EXCEPT !.val = 0] ELSE o]
                 /\ buf' = IF IsOk(o) THEN o.val ELSE out
    /\ UNCHANGED << opens, seals, sealed, args >>

NextLabel ==
    \/ HkdfExpandLabel
    \/ PrkExpand

SpecLabel == InitLabel /\ [][NextLabel]_vars

(***************************************************************************)
(* SpecThreads: several threads share one Open and one Seal (&self) and    *)
(* each makes one call on a buffer of its own.  A call proceeds in the     *)
(* steps of its code, each reading the shared facade as it is at that      *)
(* moment: the length check, make_nonce, the AEAD call; new_mask is one     *)
(* step.  args[t] is thread t's call and position, buf[t] its buffer,      *)
(* res[t] its result; sealed is a packet received from the peer.           *)
(***************************************************************************)
MaxThreads == 2

Threads == 1 .. MaxThreads

NoCall ==
    [pc |-> "idle", op |-> "none", counter |-> << 0, 0, 0, 0 >>, ad |-> <<>>,
     inp |-> <<>>, in_len |-> 0, nonce |-> <<>>]

\* The calls a thread can make: the peer's packet under its counter, a
\* buffer shorter than a tag, a packet to seal with room for the tag, and
\* the mask of a sample.
ThreadCalls ==
    { [NoCall EXCEPT !.op = "open", !.counter = sealed.counter, !.ad = sealed.ad,
                     !.inp = sealed.pkt],
      [NoCall EXCEPT !.op = "open", !.inp = Pat(15, 50)],
      [NoCall EXCEPT !.op = "seal", !.counter = << 0, 4660, 22136, 39612 >>,
                     !.ad = << 104, 100, 114 >>,
                     !.inp = Pat(MaxPlainLen, 104) \o Fill(16),
                     !.in_len = MaxPlainLen],
      [NoCall EXCEPT !.op = "seal_new_mask", !.inp = Pat(16, 11)] }

\* The shared facades o and s, and the packet the peer sealed with s.
InitThreadsOn(o, s, m) ==
    /\ opens = << o >>
    /\ seals = << s >>
    /\ sealed = [valid |-> TRUE, idx |-> 1, counter |-> << 0, 0, 0, 0 >>,
                 ad |-> <<>>, m |-> m, extra |-> <<>>,
                 pkt |-> seal_with_u64_counter(s, << 0, 0, 0, 0 >>, <<>>, m \o Fill(16),
                                               usize_from(Len(m)), None, TRUE).buf]

InitThreads ==
    /\ \E a \in Algorithm :
          InitThreadsOn(Open_from_secret(a, Pat(32, 1)).val,
                        Seal_from_secret(a, Pat(32, 1)).val, Pat(MaxPlainLen, 104))
    /\ buf = [t \in Threads |-> <<>>]
    /\ res = [t \in Threads |-> Start]
    /\ args = [t \in Threads |-> NoCall]

\* Thread t returns r, leaving b in its buffer.
Return(t, r, b) ==
    /\ res' = [res EXCEPT ![t] = [op |-> args[t].op, call |-> <<>>, r |-> r]]
    /\ buf' = [buf EXCEPT ![t] = b]
    /\ args' = [args EXCEPT ![t].pc = "done"]

BeginCall(t, c) ==
    /\ args[t].pc = "idle"
    /\ args' = [args EXCEPT ![t] =
                   [c EXCEPT !.pc = IF c.op \in { "open", "seal" } THEN "check"
                                    ELSE "mask"]]
    /\ buf' = [buf EXCEPT ![t] = c.inp]
    /\ UNCHANGED << opens, seals, sealed, res >>

\* The length check at the head of open_with_u64_counter and of
\* seal_with_u64_counter (extra_in = None, in_len inside the buffer).
CheckStep(t) ==
    /\ args[t].pc = "check"
    /\ LET tlen == tag_len(IF args[t].op = "open" THEN opens[1].alg ELSE seals[1].alg)
           need == usize_add(usize_add(usize_from(args[t].in_len), usize_from(tlen)).val,
                             usize_from(0)).val
           short == IF args[t].op = "open" THEN tlen > Len(buf[t])
                    ELSE usize_gt(need, usize_from(Len(buf[t])))
       IN  IF short
           THEN Return(t, CryptoFail, buf[t])
           ELSE /\ args' = [args EXCEPT ![t].pc = "nonce"]
                /\ UNCHANGED << buf, res >>
    /\ UNCHANGED << opens, seals, sealed >>

\* make_nonce computing the nonce in place in the facade's IV.
NonceStepInPlace(t) ==
    /\ args[t].pc = "nonce"
    /\ LET iv == IF args[t].op = "open" THEN opens[1].packet.nonce
                 ELSE seals[1].packet.nonce
           nonce == make_nonce(iv, args[t].counter)
       IN  /\ IsOk(nonce)
           /\ args' = [args EXCEPT ![t].pc = "aead", ![t].nonce = nonce.val]
           /\ opens' = IF args[t].op = "open"
                       THEN [opens EXCEPT ![1].packet.nonce = nonce.val] ELSE opens
           /\ seals' = IF args[t].op = "seal"
                       THEN [seals EXCEPT ![1].packet.nonce = nonce.val] ELSE seals
           /\ UNCHANGED << buf, res >>
    /\ UNCHANGED sealed

\* make_nonce(&self.packet.nonce, counter) into a local of the thread.
NonceStep(t) ==
    /\ args[t].pc = "nonce"
    /\ LET iv == IF args[t].op = "open" THEN opens[1].packet.nonce
                 ELSE seals[1].packet.nonce
           nonce == make_nonce(iv, args[t].counter)
       IN  IF ~IsOk(nonce)
           THEN Return(t, nonce, buf[t])
           ELSE /\ args' = [args EXCEPT ![t].pc = "aead", ![t].nonce = nonce.val]
                /\ UNCHANGED << buf, res >>
    /\ UNCHANGED << opens, seals, sealed >>

\* self.packet.ctx.open(buf, ..) or split_at_mut and
\* self.packet.ctx.seal_scatter(in_out, out_tag, ..), then the return.
AeadStep(t) ==
    /\ args[t].pc = "aead"
    /\ IF args[t].op = "open"
       THEN LET o == open(opens[1].packet.ctx, buf[t], args[t].nonce, args[t].ad)
            IN  Return(t, o.r, o.in_out)
       ELSE LET n == args[t].in_len IN
            LET s == seal_scatter(seals[1].packet.ctx, SubSeq(buf[t], 1, n),
                                  SubSeq(buf[t], n + 1, Len(buf[t])), args[t].nonce,
                                  None, args[t].ad)
            IN  Return(t, IF IsOk(s.r)
                          THEN Ok(usize_add(usize_from(n), usize_from(s.r.val)).val)
                          ELSE CryptoFail,
                       s.in_out \o s.out_tag)
    /\ UNCHANGED << opens, seals, sealed >>

MaskStep(t) ==
    /\ args[t].pc = "mask"
    /\ Return(t, IF args[t].op = "open_new_mask"
                 THEN Open_new_mask(opens[1], args[t].inp)
                 ELSE Seal_new_mask(seals[1], args[t].inp),
              buf[t])
    /\ UNCHANGED << opens, seals, sealed >>

NextThreads ==
    \E t \in Threads :
        \/ \E c \in ThreadCalls : BeginCall(t, c)
        \/ CheckStep(t)
        \/ NonceStep(t)
        \/ AeadStep(t)
        \/ MaskStep(t)

SpecThreads == InitThreads /\ [][NextThreads]_vars

(***************************************************************************)
(* SpecCounters: the nonces two calls on the facades of one packet key     *)
(* hand to the AEAD.  res is the sequence of the calls made: the side,     *)
(* the counter and what make_nonce(&self.packet.nonce, counter) returned.  *)
(***************************************************************************)
InitCounters ==
    /\ \E a \in Algorithm :
          /\ opens = << Open_from_secret(a, Pat(32, 1)).val >>
          /\ seals = << Seal_from_secret(a, Pat(32, 1)).val >>
    /\ buf = <<>>
    /\ sealed = NoPacket
    /\ res = <<>>
    /\ args = <<>>

NonceOfCall(side, counter) ==
    /\ Len(res) < 2
    /\ LET iv == IF side = "open" THEN opens[1].packet.nonce
                 ELSE seals[1].packet.nonce
       IN  res' = Append(res, [op |-> side, counter |-> counter,
                               r |-> make_nonce(iv, counter)])
    /\ UNCHANGED << opens, seals, buf, sealed, args >>

NextCounters ==
    \E side \in { "open", "seal" }, counter \in NonceCounters :
        NonceOfCall(side, counter)

SpecCounters == InitCounters /\ [][NextCounters]_vars

(***************************************************************************)
(* Properties of sealing and opening (checked under SpecAead).             *)
(***************************************************************************)
\* The open call of the current state was given the packet as sealed, with
\* the counter it was sealed under, on an Open holding the Seal's material.
FaithfulOpen ==
    /\ res.op = "open"
    /\ sealed.valid
    /\ res.call.tamper = "none"
    /\ res.call.counter = sealed.counter
    /\ SameMaterial(opens[res.call.idx], seals[sealed.idx])

\* The seal call of the current state was made on a Seal with a 12-byte IV,
\* with in_len inside the buffer and room left for extra_in and the tag.
FittingSeal ==
    /\ res.op = "seal"
    /\ Len(seals[res.call.idx].packet.nonce) = nonce_len(seals[res.call.idx].alg)
    /\ ~usize_gt(res.call.in_len, usize_from(Len(res.call.buf)))
    /\ Len(res.call.buf) - usize_small(res.call.in_len)
          >= tag_len(seals[res.call.idx].alg) + Len(OptBytes(res.call.extra_in))

\* C1: sealing into a large enough buffer succeeds, and the packet sealed
\* under (counter, ad), opened under the same (counter, ad) by an Open with
\* the same algorithm, key and IV, opens successfully: the call returns the
\* plaintext's length and the buffer starts with the plaintext (followed
\* by extra_in's plaintext, if any).
RoundTrip ==
    /\ FittingSeal => IsOk(res.r)
    /\ FaithfulOpen =>
          LET plain == sealed.m \o sealed.extra IN
          /\ IsOk(res.r)
          /\ res.r.val = Len(plain)
          /\ SubSeq(buf, 1, Len(plain)) = plain

RoundTripWitness ==
    /\ FaithfulOpen
    /\ sealed.extra = <<>>
    /\ Len(sealed.m) = MaxPlainLen
    /\ sealed.ad # <<>>
    /\ sealed.counter # << 0, 0, 0, 0 >>
    /\ IsOk(res.r)
    /\ res.r.val = Len(sealed.m)

\* C2: opening a sealed packet after one bit of its ciphertext, of its tag
\* or of the associated data was flipped returns CryptoFail.
Authentication ==
    (res.op = "open" /\ res.call.tamper \in { "ct", "tag", "ad" }) =>
        res.r.status = "CryptoFail"

AuthenticationWitness ==
    /\ res.op = "open"
    /\ res.call.tamper = "ad"
    /\ Len(sealed.m) > 0
    /\ res.r.status = "CryptoFail"
    /\ buf = Zeros(Len(sealed.pkt))

\* len(buf) < in_len + tag_len + len(extra_in), as numbers.
BufTooSmall(call, tlen) ==
    \/ usize_gt(call.in_len, usize_from(Len(call.buf)))
    \/ Len(call.buf) - usize_small(call.in_len) < tlen + Len(OptBytes(call.extra_in))

\* C3: every seal call (on a Seal whose IV has the algorithm's nonce length)
\* whose buffer is smaller than in_len + tag_len + len(extra_in) returns
\* CryptoFail and leaves the buffer as it was.
SealRejectsSmallBuf ==
    (/\ res.op = "seal"
     /\ Len(seals[res.call.idx].packet.nonce) = nonce_len(seals[res.call.idx].alg)
     /\ BufTooSmall(res.call, tag_len(seals[res.call.idx].alg))) =>
        /\ res.r.status = "CryptoFail"
        /\ buf = res.call.buf

\* C4: a successful seal returns in_len + len(extra_in) + tag_len and the
\* buffer holds the ciphertext of buf[0..in_len], the ciphertext of
\* extra_in, the tag, and after them the bytes it held before.
SealLayout ==
    (res.op = "seal" /\ IsOk(res.r)) =>
        LET c == res.call
            f == seals[c.idx]
            n == usize_small(c.in_len)
            x == OptBytes(c.extra_in)
            t == tag_len(f.alg)
            nonce == make_nonce(f.packet.nonce, c.counter).val
            ct == Crypt(f.packet.ctx, nonce, SubSeq(c.buf, 1, n), 0)
            cx == Crypt(f.packet.ctx, nonce, x, n)
        IN  /\ res.r.val = usize_from(n + Len(x) + t)
            /\ Len(buf) = Len(c.buf)
            /\ SubSeq(buf, 1, n) = ct
            /\ SubSeq(buf, n + 1, n + Len(x)) = cx
            /\ SubSeq(buf, n + Len(x) + 1, n + Len(x) + t)
                  = Tag(f.packet.ctx, nonce, c.ad, ct \o cx)
            /\ SubSeq(buf, n + Len(x) + t + 1, Len(buf))
                  = SubSeq(c.buf, n + Len(x) + t + 1, Len(c.buf))

SealLayoutWitness ==
    /\ res.op = "seal"
    /\ IsOk(res.r)
    /\ res.call.in_len = usize_from(MaxPlainLen)
    /\ Len(OptBytes(res.call.extra_in)) = MaxExtraLen
    /\ usize_small(res.r.val) < Len(buf)

\* C5: open returns CryptoFail when the buffer is shorter than the tag, and
\* a successful open returns len(buf) - tag_len.
OpenLength ==
    res.op = "open" =>
        LET t == tag_len(opens[res.call.idx].alg) IN
        /\ res.call.len < t => res.r.status = "CryptoFail"
        /\ IsOk(res.r) => res.r.val = res.call.len - t

OpenLengthWitness ==
    /\ res.op = "open"
    /\ res.call.len = 0
    /\ res.r.status = "CryptoFail"

\* C8: no call aborts: every call returns Ok or CryptoFail.
NoPanic == res.r.status # "Panic"

(***************************************************************************)
(* Properties of make_nonce (checked under SpecNonce).                     *)
(***************************************************************************)
\* The 64-bit number whose big-endian encoding is the 8 bytes b.
be_value(b) ==
    << b[1] * 256 + b[2], b[3] * 256 + b[4], b[5] * 256 + b[6], b[7] * 256 + b[8] >>

\* C6: for a 12-byte IV, make_nonce(iv, counter) XOR iv is 4 zero bytes
\* followed by the big-endian encoding of counter, and the IV handed to the
\* call is the same after it.
NonceConstruction ==
    (res.op = "make_nonce" /\ Len(res.call.iv) = 12) =>
        /\ IsOk(res.r)
        /\ Len(res.r.val) = 12
        /\ LET x == [i \in 1 .. 12 |-> BitXor(res.r.val[i], res.call.iv[i])]
           IN  /\ SubSeq(x, 1, 4) = << 0, 0, 0, 0 >>
               /\ be_value(SubSeq(x, 5, 12)) = res.call.counter
        /\ SubSeq(res.r.val, 1, 4) = SubSeq(res.call.iv, 1, 4)
        /\ args.iv = res.call.iv

NonceConstructionWitness ==
    /\ res.op = "make_nonce"
    /\ res.call.iv = Pat(12, 77)
    /\ res.call.counter = << 4660, 22136, 39612, 57072 >>
    /\ IsOk(res.r)
    /\ res.r.val # res.call.iv

(***************************************************************************)
(* Properties of construction and key update.                              *)
(***************************************************************************)
Facades == { opens[i] : i \in 1 .. Len(opens) } \cup { seals[i] : i \in 1 .. Len(seals) }

FacadeLengths(f) ==
    /\ Len(f.packet.ctx.key) = key_len(f.alg)
    /\ Len(f.packet.nonce) = nonce_len(f.alg)
    /\ Len(f.header.hp_key) = key_len(f.alg)

\* C7: every facade a constructor returned has a key of key_len bytes, an
\* IV of nonce_len bytes and a header-protection key of key_len bytes, and
\* Open::new / Seal::new return CryptoFail when the key, the IV or the
\* header-protection key has another length.
LengthInvariant ==
    /\ \A f \in Facades : FacadeLengths(f)
    /\ (/\ res.op \in { "open_new", "seal_new" }
        /\ \/ res.call.key_len # key_len(res.call.alg)
           \/ res.call.iv_len # nonce_len(res.call.alg)
           \/ res.call.hp_len # key_len(res.call.alg))
       => res.r.status = "CryptoFail"

ChainFrame(chain) ==
    \A i \in 1 .. Len(chain) :
        /\ chain[i].alg = chain[1].alg
        /\ chain[i].header.hp_key = chain[1].header.hp_key
        /\ Len(chain[i].secret) = Len(chain[1].secret)
        /\ \A sample \in Samples :
              HeaderProtectionKey_new_mask(chain[i].header, sample)
                 = HeaderProtectionKey_new_mask(chain[1].header, sample)

\* C9: a key update returns a facade with the algorithm and the
\* header-protection key of its predecessor and a secret of the same
\* length, leaves every existing facade as it was, and new_mask gives the
\* same answer on every facade of a chain of key updates.
KeyUpdateFrame ==
    /\ [](ChainFrame(opens) /\ ChainFrame(seals))
    /\ [](res.op = "open_new_mask" =>
             res.r = Open_new_mask(opens[1], res.call.sample))
    /\ [](res.op = "seal_new_mask" =>
             res.r = Seal_new_mask(seals[1], res.call.sample))
    /\ [][/\ opens # <<>> => SubSeq(opens', 1, Len(opens)) = opens
          /\ seals # <<>> => SubSeq(seals', 1, Len(seals)) = seals]_vars

KeyUpdateFrameWitness ==
    /\ res.op = "open_new_mask"
    /\ res.call.idx = MaxUpdates + 1
    /\ Len(opens) = MaxUpdates + 1
    /\ IsOk(res.r)
    /\ opens[res.call.idx].secret # opens[1].secret
    /\ opens[res.call.idx].packet # opens[1].packet

\* The n-fold "quic ku" expansion of a secret.
RECURSIVE NextSecretN(_, _, _)
NextSecretN(alg, secret, n) ==
    IF n = 0 THEN secret
    ELSE hkdf_expand_label(Prk_new_less_safe(alg, NextSecretN(alg, secret, n - 1)),
                           LABEL_KU, Zeros(Len(secret))).val

BuiltFromSecret(f) ==
    /\ f.header = HeaderProtectionKey_from_secret(f.alg, f.secret).val
    /\ f.packet = PacketKey_from_secret(f.alg, f.secret).val

ChainComposition(chain) ==
    BuiltFromSecret(chain[1]) =>
        \A n \in 0 .. (Len(chain) - 1) :
            LET sn == NextSecretN(chain[1].alg, chain[1].secret, n) IN
            /\ chain[n + 1].secret = sn
            /\ chain[n + 1].packet = PacketKey_from_secret(chain[1].alg, sn).val

\* C10: n key updates from from_secret(alg, s) give the n-fold "quic ku"
\* expansion of s as secret and the packet key and IV of from_secret(alg,
\* that secret); a Seal and an Open updated the same number of times from
\* the same secret round-trip.
KeyUpdateComposition ==
    /\ ChainComposition(opens)
    /\ ChainComposition(seals)
    /\ args.ctor = "from_secret" =>
          (BuiltFromSecret(opens[1]) /\ BuiltFromSecret(seals[1]))
    /\ [][opens' = opens /\ seals' = seals /\ args' = args]_vars
    /\ []((/\ res.op = "open"
           /\ sealed.valid
           /\ res.call.tamper = "none"
           /\ res.call.counter = sealed.counter
           /\ res.call.idx = sealed.idx
           /\ args.ctor = "from_secret"
           /\ opens[1].alg = seals[1].alg
           /\ opens[1].secret = seals[1].secret)
          => /\ IsOk(res.r)
             /\ SubSeq(buf, 1, res.r.val) = sealed.m \o sealed.extra)

KeyUpdateCompositionWitness ==
    /\ res.op = "open"
    /\ sealed.valid
    /\ res.call.tamper = "none"
    /\ res.call.counter = sealed.counter
    /\ res.call.idx = MaxUpdates + 1
    /\ sealed.idx = MaxUpdates + 1
    /\ args.ctor = "from_secret"
    /\ opens[1].secret = seals[1].secret
    /\ opens[MaxUpdates + 1].packet # opens[1].packet
    /\ IsOk(res.r)
    /\ Len(sealed.m) > 0

(***************************************************************************)
(* Properties of the Initial keys (checked under SpecInitial).             *)
(***************************************************************************)
\* The client and the server Initial secret of a connection id, from the
\* key schedule: HKDF-Extract under the Initial salt, then the label.
InitialSecretOf(cid, label) ==
    hkdf_expand_label(Prk_new("AES128_GCM", INITIAL_SALT_V1, cid).val, label,
                      Zeros(32)).val

\* Endpoints i and j derived their keys for the same connection id, one as
\* the client and one as the server.
Peers(i, j) ==
    /\ args[i].cid = args[j].cid
    /\ args[i].is_server # args[j].is_server

\* C11: derive_initial_key_material(cid, version, is_server) returns an
\* Open keyed with the client material and a Seal keyed with the server
\* material when is_server, the reverse otherwise, both AES128_GCM; so for
\* one connection id each side's Seal holds what the other side's Open
\* holds, and a packet sealed by one side opens on the other.
InitialRoles ==
    /\ res.op = "derive_initial_key_material" =>
          LET reads == InitialSecretOf(res.call.cid,
                           IF res.call.is_server THEN LABEL_CLIENT_IN
                           ELSE LABEL_SERVER_IN)
              writes == InitialSecretOf(res.call.cid,
                           IF res.call.is_server THEN LABEL_SERVER_IN
                           ELSE LABEL_CLIENT_IN)
          IN  /\ IsOk(res.r)
              /\ res.r.val[1] = Open_from_secret("AES128_GCM", reads).val
              /\ res.r.val[2] = Seal_from_secret("AES128_GCM", writes).val
              /\ opens[Len(opens)] = res.r.val[1]
              /\ seals[Len(seals)] = res.r.val[2]
    /\ \A i, j \in 1 .. Len(args) :
          Peers(i, j) =>
              /\ SameMaterial(opens[i], seals[j])
              /\ opens[i].header = seals[j].header
              /\ opens[i].secret = seals[j].secret
    /\ ( /\ res.op = "open"
         /\ sealed.valid
         /\ Peers(res.call.idx, sealed.idx)
         /\ res.call.counter = sealed.counter )
       => /\ IsOk(res.r)
          /\ res.r.val = Len(sealed.m)
          /\ SubSeq(buf, 1, Len(sealed.m)) = sealed.m

\* A server opened, to its plaintext, a packet the client of the same
\* connection id sealed.
InitialRolesWitness ==
    /\ res.op = "open"
    /\ sealed.valid
    /\ Peers(res.call.idx, sealed.idx)
    /\ args[res.call.idx].is_server
    /\ res.call.counter = sealed.counter
    /\ IsOk(res.r)
    /\ sealed.m # <<>>
    /\ SubSeq(buf, 1, Len(sealed.m)) = sealed.m

(***************************************************************************)
(* Properties of the derivations (checked under SpecDerive).               *)
(***************************************************************************)
\* The length the derivation called in this state requires of its buffer.
RequiredLen ==
    IF res.op = "derive_pkt_iv" THEN nonce_len(res.call.aead)
    ELSE key_len(res.call.aead)

\* C12: derive_hdr_key, derive_pkt_key and derive_pkt_iv return CryptoFail
\* for every output buffer whose length is not the required one, shorter
\* or longer, and succeed for a buffer of exactly the required length.
DeriveExactLength ==
    res.op \in { "derive_hdr_key", "derive_pkt_key", "derive_pkt_iv" } =>
        IF Len(res.call.out) = RequiredLen
        THEN IsOk(res.r)
        ELSE res.r = CryptoFail /\ buf = res.call.out

(***************************************************************************)
(* Properties of header-protection masks (checked under SpecMask).         *)
(***************************************************************************)
\* The HeaderProtectionKey the new_mask call of this state was made on.
MaskKey ==
    CASE res.op = "open_new_mask" -> opens[res.call.idx].header
      [] res.op = "seal_new_mask" -> seals[res.call.idx].header
      [] OTHER -> args.header

\* The mask of a 16-byte sample under key k: the first five bytes of the
\* AES encryption of the sample for the AES suites; for ChaCha20_Poly1305
\* five keystream bytes with counter = sample[0..4] read little-endian and
\* nonce = sample[4..16].
MaskOf(k, sample) ==
    IF k.alg = "ChaCha20_Poly1305"
    THEN CRYPTO_chacha_20(<< 0, 0, 0, 0, 0 >>, k.hp_key, SubSeq(sample, 5, 16),
                          << sample[4] * 256 + sample[3], sample[2] * 256 + sample[1] >>)
    ELSE SubSeq(AES_encrypt(sample, AES_set_encrypt_key(k.hp_key, 8 * Len(k.hp_key)).aes_key),
                1, 5)

\* C13: new_mask on an Open, a Seal or a HeaderProtectionKey returns
\* CryptoFail for every sample that is not exactly 16 bytes long, and for
\* a 16-byte sample the 5-byte mask of the algorithm's path.
MaskSampleRule ==
    res.op \in { "open_new_mask", "seal_new_mask", "header_new_mask" } =>
        IF Len(res.call.sample) # 16
        THEN res.r = CryptoFail
        ELSE /\ IsOk(res.r)
             /\ Len(res.r.val) = 5
             /\ res.r.val = MaskOf(MaskKey, res.call.sample)

\* A ChaCha20_Poly1305 Open gave the mask of a 16-byte sample whose first
\* four bytes differ.
MaskSampleRuleWitness ==
    /\ res.op = "open_new_mask"
    /\ opens[1].alg = "ChaCha20_Poly1305"
    /\ Len(res.call.sample) = 16
    /\ res.call.sample[1] # res.call.sample[4]
    /\ IsOk(res.r)
    /\ Len(res.r.val) = 5

(***************************************************************************)
(* Properties of HKDF-Expand-Label (checked under SpecLabel).              *)
(***************************************************************************)
\* C14: hkdf_expand_label returns CryptoFail when the output length L is
\* over 255 * prk_len, and every call that reaches HKDF-Expand passes the
\* info string be16(L) || u8(6 + len(label)) || "tls13 " || label || 0x00,
\* whose length fields hold L and 6 + len(label) themselves.
HkdfLabelEncoding ==
    res.op = "hkdf_expand_label" =>
        LET L == args.out_len
            n == 6 + Len(args.label)
            info == << L \div 256, L % 256, n >> \o LABEL_PREFIX \o args.label \o << 0 >>
        IN  /\ L > 255 * prk_len(args.alg) => res.r = CryptoFail
            /\ IsOk(res.r) =>
                  /\ res.call.info = info
                  /\ L \div 256 \in Byte
                  /\ n \in Byte
                  /\ buf = HKDF_expand(L, get_evp_md(args.alg),
                                       Pat(prk_len(args.alg), 1), info).out_key

\* A key update of a 300-byte secret: both length bytes are in use.
HkdfLabelEncodingWitness ==
    /\ res.op = "hkdf_expand_label"
    /\ IsOk(res.r)
    /\ args.label = LABEL_KU
    /\ args.out_len = 300
    /\ SubSeq(res.call.info, 1, 3) = << 1, 44, 13 >>
    /\ Len(buf) = 300

(***************************************************************************)
(* Properties of concurrent use (checked under SpecThreads).               *)
(***************************************************************************)
\* The result and the buffer the call c gets when it runs alone.
Alone(c) ==
    CASE c.op = "open" ->
            open_with_u64_counter(opens[1], c.counter, c.ad, c.inp)
      [] c.op = "seal" ->
            seal_with_u64_counter(seals[1], c.counter, c.ad, c.inp,
                                  usize_from(c.in_len), None, TRUE)
      [] c.op = "open_new_mask" ->
            [r |-> Open_new_mask(opens[1], c.inp), buf |-> c.inp]
      [] c.op = "seal_new_mask" ->
            [r |-> Seal_new_mask(seals[1], c.inp), buf |-> c.inp]

\* Thread t's result and buffer are those of the call a.
SameAs(t, a) ==
    /\ res[t].r = a.r
    /\ buf[t] = a.buf

SameAsAlone ==
    \A t \in Threads : args[t].pc = "done" => SameAs(t, Alone(args[t]))

\* C15: however the steps of the threads' calls interleave, every call
\* returns what it returns when run alone, and no step changes the shared
\* Open or Seal (algorithm, secret, HP key, AEAD key, IV).
ConcurrentUse ==
    /\ []SameAsAlone
    /\ [][opens' = opens /\ seals' = seals]_vars

\* One thread has opened the peer's packet to its plaintext while another
\* thread's seal is between its make_nonce and its AEAD call.
ConcurrentUseWitness ==
    \E t, u \in Threads :
        /\ t # u
        /\ args[t].pc = "done"
        /\ args[t].op = "open"
        /\ IsOk(res[t].r)
        /\ SubSeq(buf[t], 1, Len(sealed.m)) = sealed.m
        /\ args[u].pc = "aead"
        /\ args[u].op = "seal"

(***************************************************************************)
(* Properties of nonces across calls (checked under SpecCounters).         *)
(***************************************************************************)
\* C16: under one packet key (one 12-byte IV), two calls pass the same
\* nonce to the AEAD exactly when their counters are equal: different
\* 64-bit counters give different nonces.
NonceInjective ==
    \A i, j \in 1 .. Len(res) :
        /\ Len(opens[1].packet.nonce) = 12
        /\ opens[1].packet.nonce = seals[1].packet.nonce
        /\ IsOk(res[i].r)
        /\ IsOk(res[j].r)
        /\ (res[i].r.val = res[j].r.val) <=> (res[i].counter = res[j].counter)

\* Two calls whose counters differ only above the low 32 bits were given
\* different nonces.
NonceInjectiveWitness ==
    /\ Len(res) = 2
    /\ res[1].counter # res[2].counter
    /\ res[1].counter[3] = res[2].counter[3]
    /\ res[1].counter[4] = res[2].counter[4]
    /\ IsOk(res[1].r)
    /\ IsOk(res[2].r)
    /\ res[1].r.val # res[2].r.val

====
